---- MODULE Spec2Model ----
(***************************************************************************)
(* Model of the adaptive assessment engine of CERT-AI's backend:           *)
(*   services/simulation.py   - timed simulation exams                     *)
(*   services/review_queue.py - spaced-repetition review queue             *)
(*   routes/simulation_routes.py - the HTTP surface of the simulations     *)
(*                                                                         *)
(* Python's float is an IEEE-754 binary64.  The scoring and scheduling     *)
(* code rounds floats, so the arithmetic is modelled bit-exactly: a float  *)
(* is a record [m, e] standing for m * 2^e, with m an arbitrary-precision  *)
(* natural number held as a little-endian sequence of 15-bit limbs (TLC's  *)
(* integers are 32 bits wide).                                             *)
(***************************************************************************)
EXTENDS Integers, Sequences, FiniteSets, TLC

(***************************************************************************)
(* Arbitrary-precision naturals: little-endian limbs, no leading zero limb. *)
(***************************************************************************)
Base == 32768
LimbBits == 15
MantBits == 53

Pow2[i \in 0..30] == IF i = 0 THEN 1 ELSE 2 * Pow2[i - 1]

RECURSIVE BFromInt(_)
BFromInt(n) == IF n = 0 THEN <<>> ELSE <<n % Base>> \o BFromInt(n \div Base)

RECURSIVE BToInt(_)
BToInt(a) == IF a = <<>> THEN 0 ELSE Head(a) + Base * BToInt(Tail(a))

RECURSIVE BNorm(_)
BNorm(a) ==
    IF a = <<>> THEN <<>>
    ELSE IF a[Len(a)] = 0 THEN BNorm(SubSeq(a, 1, Len(a) - 1))
    ELSE a

RECURSIVE BAddC(_, _, _)
BAddC(a, b, c) ==
    IF a = <<>> /\ b = <<>> THEN (IF c = 0 THEN <<>> ELSE <<c>>)
    ELSE LET x == IF a = <<>> THEN 0 ELSE Head(a)
             y == IF b = <<>> THEN 0 ELSE Head(b)
             s == x + y + c
         IN  <<s % Base>> \o BAddC(IF a = <<>> THEN <<>> ELSE Tail(a),
                                   IF b = <<>> THEN <<>> ELSE Tail(b),
                                   s \div Base)

BAdd(a, b) == BAddC(a, b, 0)

\* a - b, for a >= b
RECURSIVE BSubC(_, _, _)
BSubC(a, b, c) ==
    IF a = <<>> THEN <<>>
    ELSE LET y == IF b = <<>> THEN 0 ELSE Head(b)
             s == Head(a) - y - c
         IN  <<IF s < 0 THEN s + Base ELSE s>>
             \o BSubC(Tail(a), IF b = <<>> THEN <<>> ELSE Tail(b),
                      IF s < 0 THEN 1 ELSE 0)

BSub(a, b) == BNorm(BSubC(a, b, 0))

\* -1, 0, 1 as a < b, a = b, a > b
RECURSIVE BCmpFrom(_, _, _)
BCmpFrom(a, b, i) ==
    IF i = 0 THEN 0
    ELSE IF a[i] < b[i] THEN -1
    ELSE IF a[i] > b[i] THEN 1
    ELSE BCmpFrom(a, b, i - 1)

BCmp(a, b) ==
    IF Len(a) < Len(b) THEN -1
    ELSE IF Len(a) > Len(b) THEN 1
    ELSE BCmpFrom(a, b, Len(a))

\* a * k + c, for 0 <= k, c < Base
RECURSIVE BMulSmallC(_, _, _)
BMulSmallC(a, k, c) ==
    IF a = <<>> THEN (IF c = 0 THEN <<>> ELSE <<c>>)
    ELSE LET s == Head(a) * k + c
         IN  <<s % Base>> \o BMulSmallC(Tail(a), k, s \div Base)

BMulSmall(a, k) == IF k = 0 THEN <<>> ELSE BMulSmallC(a, k, 0)

BShiftLimb(a) == IF a = <<>> THEN <<>> ELSE <<0>> \o a

RECURSIVE BMul(_, _)
BMul(a, b) ==
    IF b = <<>> \/ a = <<>> THEN <<>>
    ELSE BAdd(BMulSmall(a, Head(b)), BShiftLimb(BMul(a, Tail(b))))

RECURSIVE BShiftLimbs(_, _)
BShiftLimbs(a, n) == IF n = 0 THEN a ELSE BShiftLimbs(BShiftLimb(a), n - 1)

\* a * 2^k
BShl(a, k) == BShiftLimbs(BMulSmall(a, Pow2[k % LimbBits]), k \div LimbBits)

\* floor(a / d) for 0 < d <= Base, most significant limb first
RECURSIVE BDivSmallFrom(_, _, _, _)
BDivSmallFrom(a, d, i, r) ==
    IF i = 0 THEN <<>>
    ELSE LET s == r * Base + a[i]
         IN  BDivSmallFrom(a, d, i - 1, s % d) \o <<s \div d>>

BDivSmall(a, d) == BNorm(BDivSmallFrom(a, d, Len(a), 0))

\* floor(a / 2^k)
BShr(a, k) ==
    LET n == k \div LimbBits
    IN  IF n >= Len(a) THEN <<>>
        ELSE BDivSmall(SubSeq(a, n + 1, Len(a)), Pow2[k % LimbBits])

RECURSIVE IntBitLen(_)
IntBitLen(n) == IF n = 0 THEN 0 ELSE 1 + IntBitLen(n \div 2)

BBitLen(a) == IF a = <<>> THEN 0 ELSE LimbBits * (Len(a) - 1) + IntBitLen(a[Len(a)])

BBit(a, i) == (a[(i \div LimbBits) + 1] \div Pow2[i % LimbBits]) % 2

BIsOdd(a) == a # <<>> /\ Head(a) % 2 = 1

\* the largest q < Base with q * d <= r, for r < d * Base, found bit by bit
RECURSIVE BQuotDigit(_, _, _, _)
BQuotDigit(r, d, b, q) ==
    IF b < 0 THEN q
    ELSE IF BCmp(BMulSmall(d, q + Pow2[b]), r) <= 0
         THEN BQuotDigit(r, d, b - 1, q + Pow2[b])
         ELSE BQuotDigit(r, d, b - 1, q)

\* Long division, one limb of n at a time from the top: <<quotient, remainder>>
\* of floor(n / Base^(i-1)) by d, for d > 0
RECURSIVE BDivModFrom(_, _, _)
BDivModFrom(n, d, i) ==
    IF i > Len(n) THEN <<(<<>>), (<<>>)>>
    ELSE CHOOSE qr \in
            {CHOOSE t \in
                {CHOOSE u \in {<<BNorm(<<q>> \o p[1]), BSub(r, BMulSmall(d, q))>> :
                                  q \in {BQuotDigit(r, d, LimbBits - 1, 0)}} : TRUE :
                 r \in {BNorm(<<n[i]>> \o p[2])}} : TRUE :
             p \in {BDivModFrom(n, d, i + 1)}} : TRUE

BDivMod(n, d) == BDivModFrom(n, d, 1)

(***************************************************************************)
(* IEEE-754 binary64, non-negative values: [m, e] is m * 2^e, kept with m   *)
(* odd (or m = 0, e = 0) so that equal values are equal records.            *)
(***************************************************************************)
RECURSIVE IntTrailingZeros(_)
IntTrailingZeros(n) == IF n % 2 = 1 THEN 0 ELSE 1 + IntTrailingZeros(n \div 2)

RECURSIVE BTrailingZeros(_)
BTrailingZeros(a) ==
    IF Head(a) = 0 THEN LimbBits + BTrailingZeros(Tail(a))
    ELSE IntTrailingZeros(Head(a))

FZero == [m |-> <<>>, e |-> 0]

FCanon(m, e) ==
    IF m = <<>> THEN FZero
    ELSE LET tz == BTrailingZeros(m)
         IN  [m |-> BShr(m, tz), e |-> e + tz]

\* round-to-nearest, ties-to-even, of (m + a fraction that is non-zero iff
\* sticky) * 2^e to 53 significant bits
FRound(m, e, sticky) ==
    LET len == BBitLen(m)
    IN  IF len <= MantBits THEN FCanon(m, e)
        ELSE LET k    == len - MantBits
                 hi   == BShr(m, k)
                 lo   == BSub(m, BShl(hi, k))
                 half == BShl(<<1>>, k - 1)
                 c    == BCmp(lo, half)
                 up   == c > 0 \/ (c = 0 /\ (sticky \/ BIsOdd(hi)))
             IN  FCanon(IF up THEN BAdd(hi, <<1>>) ELSE hi, e + k)

FromInt(n) == FCanon(BFromInt(n), 0)

FMin(a, b) == IF a <= b THEN a ELSE b
Max(a, b) == IF a >= b THEN a ELSE b

\* The operations on float values.  The public operators below evaluate
\* their operands first (binding them through a singleton set), so that a
\* nested expression is computed inside out.
FMulV(x, y) == FRound(BMul(x.m, y.m), x.e + y.e, FALSE)

FAddV(x, y) ==
    LET e == FMin(x.e, y.e)
    IN  FRound(BAdd(BShl(x.m, x.e - e), BShl(y.m, y.e - e)), e, FALSE)

FSubV(x, y) ==
    LET e == FMin(x.e, y.e)
    IN  FRound(BSub(BShl(x.m, x.e - e), BShl(y.m, y.e - e)), e, FALSE)

FCmpV(x, y) ==
    LET e == FMin(x.e, y.e)
    IN  BCmp(BShl(x.m, x.e - e), BShl(y.m, y.e - e))

FDivV(x, y) ==
    IF x.m = <<>> THEN FZero
    ELSE LET s  == MantBits + 2 + BBitLen(y.m) - BBitLen(x.m)
             qr == BDivMod(BShl(x.m, s), y.m)
         IN  FRound(qr[1], x.e - y.e - s, qr[2] # <<>>)

PyRoundV(x) ==
    IF x.e >= 0 THEN BToInt(BShl(x.m, x.e))
    ELSE LET k    == -x.e
             hi   == BShr(x.m, k)
             lo   == BSub(x.m, BShl(hi, k))
             half == BShl(<<1>>, k - 1)
             c    == BCmp(lo, half)
             up   == c > 0 \/ (c = 0 /\ BIsOdd(hi))
         IN  BToInt(IF up THEN BAdd(hi, <<1>>) ELSE hi)

PyIntV(x) ==
    IF x.e >= 0 THEN BToInt(BShl(x.m, x.e)) ELSE BToInt(BShr(x.m, -x.e))

\* x * y
FMul(x, y) == CHOOSE r \in {FMulV(a, b) : a \in {x}, b \in {y}} : TRUE

\* x + y
FAdd(x, y) == CHOOSE r \in {FAddV(a, b) : a \in {x}, b \in {y}} : TRUE

\* x - y, for x >= y
FSub(x, y) == CHOOSE r \in {FSubV(a, b) : a \in {x}, b \in {y}} : TRUE

\* -1, 0, 1 as x < y, x = y, x > y
FCmp(x, y) == CHOOSE r \in {FCmpV(a, b) : a \in {x}, b \in {y}} : TRUE

\* x / y, for y > 0
FDiv(x, y) == CHOOSE r \in {FDivV(a, b) : a \in {x}, b \in {y}} : TRUE

\* the float nearest to the decimal n / 10^k, as a literal or a JSON number
\* is parsed
RECURSIVE Pow10(_)
Pow10(k) == IF k = 0 THEN 1 ELSE 10 * Pow10(k - 1)

FDec(n, k) == FDiv(FromInt(n), FromInt(Pow10(k)))

\* Python's round(x): nearest integer, ties to even, of the float's exact value
PyRound(x) == CHOOSE r \in {PyRoundV(a) : a \in {x}} : TRUE

\* Python's int(x): truncation
PyInt(x) == CHOOSE r \in {PyIntV(a) : a \in {x}} : TRUE

\* Python's round(x, k): the float's exact value rounded half-even to k
\* decimals, given as the integer number of 10^-k units
PyRoundDigits(x, k) == PyRound([m |-> BMulSmall(x.m, Pow10(k)), e |-> x.e])

(***************************************************************************)
(* NULL and optional values: <<>> is None/NULL, <<v>> is the value v.       *)
(***************************************************************************)
Null == <<>>
Some(v) == <<v>>

RECURSIVE SumSeq(_)
SumSeq(s) == IF s = <<>> THEN 0 ELSE Head(s) + SumSeq(Tail(s))

(***************************************************************************)
(* Reference data.  A domain row is [id, weight]; the weight is kept in     *)
(* thousandths and becomes the float the store's JSON number parses to.    *)
(* The certification of the model is PL-300 with its four domains.         *)
(***************************************************************************)
PL300_DOMAIN_WEIGHTS == <<275, 275, 275, 175>>

\* the weights and the small quotients the model meets, computed once
KnownWeights == {0, 25, 175, 250, 275, 500, 1000}
KnownCounts == 0..17
WeightTable == [w \in KnownWeights |-> FDec(w, 3)]
QuotientTable == [c \in KnownCounts |-> [t \in KnownCounts \ {0} |-> FDiv(FromInt(c), FromInt(t))]]

Weight(milli) == IF milli \in KnownWeights THEN WeightTable[milli] ELSE FDec(milli, 3)

\* a / b for integers a >= 0, b > 0 (Python's true division)
IntDiv(a, b) ==
    IF a \in KnownCounts /\ b \in KnownCounts THEN QuotientTable[a][b]
    ELSE FDiv(FromInt(a), FromInt(b))

Domains ==
    [i \in 1..Len(PL300_DOMAIN_WEIGHTS) |-> [id |-> i, weight |-> PL300_DOMAIN_WEIGHTS[i]]]

(***************************************************************************)
(* create_simulation, quota allocation (simulation.py 46-57)               *)
(***************************************************************************)
total_questions == 60

QuotaLastAlsoRounded(domains, i, remaining) ==
    [j \in 1..Len(domains) |->
        PyRound(FMul(Weight(domains[j].weight), FromInt(total_questions)))]

RECURSIVE QuotaFrom(_, _, _)
QuotaFrom(domains, i, remaining) ==
    IF i > Len(domains) THEN <<>>
    ELSE IF i = Len(domains) THEN <<remaining>>
    ELSE LET count == PyRound(FMul(Weight(domains[i].weight), FromInt(total_questions)))
         IN  <<count>> \o QuotaFrom(domains, i + 1, remaining - count)

\* domain_question_counts: the i-th count belongs to the i-th domain
DomainQuestionCounts(domains) == QuotaFrom(domains, 1, total_questions)

(***************************************************************************)
(* complete_simulation, weighted score (simulation.py 293-310).  A domain   *)
(* result is [domain_name, questions_total, questions_correct, weight].    *)
(***************************************************************************)
pass_threshold == 700

\* sum(dr["weight"] for dr in domain_result_list): 0 + w1 + w2 + ...
RECURSIVE TotalWeightFrom(_, _, _)
TotalWeightFrom(drs, i, acc) ==
    IF i > Len(drs) THEN acc
    ELSE CHOOSE r \in {TotalWeightFrom(drs, i + 1, acc1) :
                          acc1 \in {FAdd(acc, Weight(drs[i].weight))}} : TRUE

TotalWeight(drs) == TotalWeightFrom(drs, 1, FZero)

DomainAccuracy(dr) ==
    IF dr.questions_total > 0
    THEN IntDiv(dr.questions_correct, dr.questions_total)
    ELSE FZero

ScoreTermUnnormalised(dr, total_weight) ==
    FMul(FMul(Weight(dr.weight), DomainAccuracy(dr)), FromInt(1000))

\* (dr["weight"] / total_weight) * domain_accuracy * 1000
ScoreTerm(dr, total_weight) ==
    CHOOSE r \in {FMul(weighted, FromInt(1000)) :
                     weighted \in {FMul(share, domain_accuracy) :
                                      share \in {FDiv(Weight(dr.weight), total_weight)},
                                      domain_accuracy \in {DomainAccuracy(dr)}}} : TRUE

RECURSIVE ScoreFrom(_, _, _, _)
ScoreFrom(drs, i, total_weight, score) ==
    IF i > Len(drs) THEN score
    ELSE CHOOSE r \in {ScoreFrom(drs, i + 1, total_weight, score1) :
                          score1 \in {FAdd(score, term) :
                                         term \in {ScoreTerm(drs[i], total_weight)}}} : TRUE

\* the score as stored: round(score)
SimScore(drs) ==
    CHOOSE r \in {IF FCmp(total_weight, FZero) > 0
                    THEN CHOOSE n \in {PyRound(score) :
                                          score \in {ScoreFrom(drs, 1, total_weight, FZero)}} : TRUE
                    ELSE 0 :
                     total_weight \in {TotalWeight(drs)}} : TRUE

IsPassed(score) == score >= pass_threshold

\* round(correct / total * 100, 1), in tenths of a percent
AccuracyTenths(correct, total) ==
    IF total > 0
    THEN CHOOSE r \in {PyRoundDigits(percent, 1) :
                          percent \in {FMul(ratio, FromInt(100)) :
                                          ratio \in {IntDiv(correct, total)}}} : TRUE
    ELSE 0


(***************************************************************************)
(* The store.  A table is a sequence of rows and a row's id is its index.  *)
(* A question row keeps what the simulations read: its domain, its correct *)
(* index and its difficulty estimate; the text, options and explanation    *)
(* are a fixed payload that goes with the id.  Timestamps of a session     *)
(* (started_at, ended_at) are not kept.                                     *)
(***************************************************************************)
VARIABLES
    users,                 \* users: user id -> [global_skill]
    questions,             \* questions: row i is [domain_id, correct_index, difficulty_estimate]
    simulation_sessions,   \* simulation_sessions rows
    ret,                   \* the last request of the simulation routes and its response
    questions2,            \* a second run of the same requests over a bank that differs
    simulation_sessions2,  \*   only in the items' correct indexes and difficulties,
    ret2,                  \*   and in the selected indexes submitted
    review_queue,          \* review_queue rows, keyed by <<user_id, question_id>>
    now,                   \* the clock, in hours
    quota_in, quota_out,   \* quota allocation alone: the domain rows, the counts
    score_in, score_out,   \* scoring alone: the domain results, the score
    tally_in, tally_out,   \* the scoring loop alone: the rows and answers, the tallies
    review_rows,           \* review_queue as the list of its rows, in insertion order
    adders,                \* the add_to_review_queue calls in progress, by handler
    user_streaks,          \* users: current_streak, longest_streak, last_active_date
    question_stats,        \* questions: times_answered, times_correct, by question id
    user_domain_skills,    \* user_domain_skills rows, keyed by <<user_id, domain_id>>
    user_responses,        \* user_responses rows, in insertion order
    daily_activity,        \* daily_activity rows, keyed by <<user_id, activity_date>>
    exam_sessions,         \* exam_sessions rows, by session id
    cert_domains,          \* the ids of the certification's domains, by sort_order
    generator_calls,       \* the calls of generate_question made so far
    pass_in, pass_out,     \* the pass prediction alone: its arguments, its result
    rating_in, rating_out, \* update_ratings alone, in floats: its arguments, its result
    in_flight,             \* the calls being served step by step, by handler
    gen_in, gen_out,       \* the generator's payload; what was made and stored of it
    loop_in, loop_out      \* the generation loop of one domain alone: its inputs, its result

simVars == <<users, questions, simulation_sessions, ret>>
runTwoVars == <<questions2, simulation_sessions2, ret2>>
reviewVars == <<review_queue, now>>
quotaVars == <<quota_in, quota_out>>
scoreVars == <<score_in, score_out>>
tallyVars == <<tally_in, tally_out>>
enqueueVars == <<review_rows, adders>>
examVars == <<user_streaks, question_stats, user_domain_skills, user_responses,
              daily_activity, exam_sessions>>
selectVars == <<cert_domains, generator_calls>>
passVars == <<pass_in, pass_out>>
ratingVars == <<rating_in, rating_out>>
raceVars == <<in_flight>>
genVars == <<gen_in, gen_out>>
loopVars == <<loop_in, loop_out>>
vars == <<simVars, runTwoVars, reviewVars, quotaVars, scoreVars, tallyVars, enqueueVars,
         examVars, selectVars, passVars, ratingVars, raceVars, genVars, loopVars>>

\* bounds of the model
MaxItems == 2
MaxSessions == 1

ELO_DEFAULT_SKILL == 1000
MaxOptionIndex == 3
Users == {"u1", "u2"}
\* the learners who start simulations; the others only call into them
Starters == {"u1"}
\* the option indexes submitted, and those of the questions generated
OptionIndexes == {0, MaxOptionIndex}
GenIndexes == {0}
TimesSpent == {Some(30)}

NoRequest == [op |-> "none"]

Min(a, b) == IF a <= b THEN a ELSE b
Take(s, n) == SubSeq(s, 1, Min(n, Len(s)))

DomainIds == {Domains[i].id : i \in 1..Len(Domains)}
DomainRow(d) == Domains[CHOOSE i \in 1..Len(Domains) : Domains[i].id = d]
\* the joined domains(name, weight) of a question; "Unknown" is name 0
DomainName(q) == IF q.domain_id \in DomainIds THEN DomainRow(q.domain_id).id ELSE 0
DomainWeight(q) == IF q.domain_id \in DomainIds THEN DomainRow(q.domain_id).weight ELSE 250

(***************************************************************************)
(* create_simulation (simulation.py 17-178)                                *)
(***************************************************************************)
\* ids of the rows of domain d, in store order
RECURSIVE IdsOfDomainFrom(_, _, _)
IdsOfDomainFrom(qs, d, i) ==
    IF i > Len(qs) THEN <<>>
    ELSE (IF qs[i].domain_id = d THEN <<i>> ELSE <<>>) \o IdsOfDomainFrom(qs, d, i + 1)

\* cached.data[:count] of the select limited to count * 2 rows
Cached(qs, d, count) == Take(Take(IdsOfDomainFrom(qs, d, 1), count * 2), count)

\* The generation loop of one domain.  outcomes are the content generator's
\* answers in call order: Some(correct_index) for a valid question, Null for
\* a failure; once they are used up every further call fails, so the loop
\* goes on to its last call, generated_count = count, and adds nothing.
RECURSIVE GenerateLoop(_, _, _, _, _, _, _)
GenerateLoop(qs, available, count, generated_count, outcomes, d, user_skill) ==
    IF Len(available) < count /\ generated_count < count
    THEN IF outcomes = <<>>
         THEN [questions |-> qs, available |-> available, generated_count |-> count]
         ELSE IF Head(outcomes) # Null
         THEN GenerateLoop(
                 Append(qs, [domain_id |-> d, correct_index |-> Head(outcomes)[1],
                             difficulty_estimate |-> user_skill]),
                 Append(available, Len(qs) + 1), count, generated_count + 1,
                 Tail(outcomes), d, user_skill)
         ELSE GenerateLoop(qs, available, count, generated_count + 1,
                           Tail(outcomes), d, user_skill)
    ELSE [questions |-> qs, available |-> available, generated_count |-> generated_count]

\* the loop over the domains: the bank and all_questions before the last shuffle
RECURSIVE CollectFrom(_, _, _, _, _, _)
CollectFrom(qs, counts, gen, i, all_questions, user_skill) ==
    IF i > Len(Domains) THEN [questions |-> qs, all_questions |-> all_questions]
    ELSE CHOOSE r \in
            {CollectFrom(got.questions, counts, gen, i + 1,
                         all_questions \o Take(got.available, counts[i]), user_skill) :
                got \in {GenerateLoop(qs, cached, counts[i], 0, gen[i],
                                      Domains[i].id, user_skill) :
                            cached \in {Cached(qs, Domains[i].id, counts[i])}}} : TRUE

\* a variant that stores the nominal total whatever was collected
NewSessionOfNominalTotal(user_id, question_order) ==
    [user_id |-> user_id, total_questions |-> total_questions,
     question_order |-> question_order, answers |-> <<>>, questions_answered |-> 0,
     is_complete |-> FALSE, correct_answers |-> Null, score |-> Null,
     is_passed |-> Null, domain_results |-> Null]

\* the row inserted into simulation_sessions
NewSession(user_id, question_order) ==
    [user_id |-> user_id, total_questions |-> Len(question_order),
     question_order |-> question_order, answers |-> <<>>, questions_answered |-> 0,
     is_complete |-> FALSE, correct_answers |-> Null, score |-> Null,
     is_passed |-> Null, domain_results |-> Null]

QuestionViewWithAnswer(qs, id, i) ==
    [question_id |-> id, question_index |-> i, domain |-> DomainName(qs[id]),
     correct_index |-> qs[id].correct_index]

\* one entry of the returned question list
QuestionView(qs, id, i) ==
    [question_id |-> id, question_index |-> i, domain |-> DomainName(qs[id])]

\* domain_question_counts of the certification
SimulationCounts == DomainQuestionCounts(Domains)

\* a variant that also resets the difficulty of the questions it serves to
\* the learner's skill
CreateSimulationRetargeting(us, qs, ss, user_id, gen, perm) ==
    LET got   == CollectFrom(qs, SimulationCounts, gen, 1, <<>>,
                             us[user_id].global_skill)
        all   == got.all_questions
        order == [i \in 1..Len(all) |-> all[perm[i]]]
    IN  [questions |-> [i \in 1..Len(got.questions) |->
                           IF \E k \in 1..Len(all) : all[k] = i
                           THEN [got.questions[i] EXCEPT
                                    !.difficulty_estimate = us[user_id].global_skill]
                           ELSE got.questions[i]],
         sessions  |-> Append(ss, NewSession(user_id, order)),
         result    |-> Some([session_id |-> Len(ss) + 1,
                             questions |-> [i \in 1..Len(order) |->
                                               QuestionView(got.questions, order[i], i - 1)],
                             total_questions |-> Len(order),
                             time_limit_minutes |-> 90,
                             time_limit_seconds |-> 5400])]

\* gen: per domain, the generator's outcomes; perm: the shuffles' result
CreateSimulation(us, qs, ss, user_id, gen, perm) ==
    LET got   == CollectFrom(qs, SimulationCounts, gen, 1, <<>>,
                             us[user_id].global_skill)
        all   == got.all_questions
        order == [i \in 1..Len(all) |-> all[perm[i]]]
    IN  [questions |-> got.questions,
         sessions  |-> Append(ss, NewSession(user_id, order)),
         result    |-> Some([session_id |-> Len(ss) + 1,
                             questions |-> [i \in 1..Len(order) |->
                                               QuestionView(got.questions, order[i], i - 1)],
                             total_questions |-> Len(order),
                             time_limit_minutes |-> 90,
                             time_limit_seconds |-> 5400])]

(***************************************************************************)
(* submit_sim_answer (simulation.py 181-214)                               *)
(***************************************************************************)
PutAlone(answers, k, v) == [i \in {k} |-> v]

\* answers[str(question_index)] = v
Put(answers, k, v) == [i \in DOMAIN answers \cup {k} |-> IF i = k THEN v ELSE answers[i]]

SubmitSimAnswer(ss, session_id, question_id, question_index, selected_index, time_spent) ==
    IF session_id \notin 1..Len(ss)
    THEN [sessions |-> ss, result |-> FALSE]
    ELSE LET answers == Put(ss[session_id].answers, question_index,
                            [question_id |-> question_id, selected_index |-> selected_index,
                             time_spent_seconds |-> time_spent])
         IN  [sessions |-> [ss EXCEPT ![session_id].answers = answers,
                                      ![session_id].questions_answered = Cardinality(DOMAIN answers)],
              result |-> TRUE]

(***************************************************************************)
(* complete_simulation (simulation.py 217-340)                             *)
(***************************************************************************)
\* the rows fetched for question_order; an id with no row is skipped
RECURSIVE FetchFrom(_, _, _)
FetchFrom(qs, order, i) ==
    IF i > Len(order) THEN <<>>
    ELSE (IF order[i] \in 1..Len(qs)
          THEN <<[id |-> order[i], domain_id |-> qs[order[i]].domain_id,
                  correct_index |-> qs[order[i]].correct_index]>>
          ELSE <<>>) \o FetchFrom(qs, order, i + 1)

SelectedIndexOrZero(answers, i) ==
    IF i \in DOMAIN answers THEN answers[i].selected_index ELSE 0

\* answer["selected_index"] if answer else -1
SelectedIndex(answers, i) ==
    IF i \in DOMAIN answers THEN answers[i].selected_index ELSE -1

IndexOfDomain(drs, name) ==
    IF \E k \in 1..Len(drs) : drs[k].domain_name = name
    THEN CHOOSE k \in 1..Len(drs) : drs[k].domain_name = name
    ELSE 0

\* the loop over enumerate(questions): domain_results in order of first use
RECURSIVE DomainResultsFrom(_, _, _, _)
DomainResultsFrom(fetched, answers, i, drs) ==
    IF i > Len(fetched) THEN drs
    ELSE LET q          == fetched[i]
             is_correct == SelectedIndex(answers, i - 1) = q.correct_index
             k          == IndexOfDomain(drs, DomainName(q))
             drs1       == IF k = 0
                           THEN Append(drs, [domain_name |-> DomainName(q),
                                             questions_total |-> 0,
                                             questions_correct |-> 0,
                                             weight |-> DomainWeight(q)])
                           ELSE drs
             k1         == IF k = 0 THEN Len(drs1) ELSE k
         IN  DomainResultsFrom(fetched, answers, i + 1,
                 [drs1 EXCEPT ![k1].questions_total = @ + 1,
                              ![k1].questions_correct = @ + (IF is_correct THEN 1 ELSE 0)])

QuestionResult(q, answers, i) ==
    [index |-> i, question_id |-> q.id, correct_index |-> q.correct_index,
     selected_index |-> SelectedIndex(answers, i),
     is_correct |-> (SelectedIndex(answers, i) = q.correct_index),
     domain |-> DomainName(q)]

WithAccuracy(dr) ==
    [domain_name |-> dr.domain_name, questions_total |-> dr.questions_total,
     questions_correct |-> dr.questions_correct, weight |-> dr.weight,
     accuracy |-> AccuracyTenths(dr.questions_correct, dr.questions_total)]

\* the update of the session row and the returned results
Completed(ss, session_id, results, drs, score) ==
    LET correct_count == Cardinality({i \in 1..Len(results) : results[i].is_correct})
        total         == Len(results)
    IN  [sessions |-> [ss EXCEPT ![session_id].is_complete = TRUE,
                                 ![session_id].correct_answers = Some(correct_count),
                                 ![session_id].score = Some(score),
                                 ![session_id].is_passed = Some(IsPassed(score)),
                                 ![session_id].domain_results = Some(drs)],
         result |-> Some([session_id |-> session_id, score |-> score,
                          is_passed |-> IsPassed(score),
                          pass_threshold |-> pass_threshold,
                          total_questions |-> total,
                          correct_answers |-> correct_count,
                          accuracy |-> AccuracyTenths(correct_count, total),
                          domain_results |-> drs,
                          question_results |-> results])]

\* the per-domain results with their accuracies, then the score
Scored(ss, session_id, results, drs0) ==
    CHOOSE r \in {CHOOSE c \in {Completed(ss, session_id, results, drs, score) :
                                    score \in {SimScore(drs)}} : TRUE :
                  drs \in {[k \in 1..Len(drs0) |-> WithAccuracy(drs0[k])]}} : TRUE

CompleteSimulation(qs, ss, session_id, user_id) ==
    IF session_id \notin 1..Len(ss) \/ ss[session_id].user_id # user_id
    THEN [sessions |-> ss, result |-> Null]
    ELSE IF ss[session_id].question_order = <<>>
    THEN [sessions |-> ss, result |-> Null]
    ELSE LET sim == ss[session_id]
         IN  CHOOSE r \in
                {Scored(ss, session_id,
                        [i \in 1..Len(fetched) |-> QuestionResult(fetched[i], sim.answers, i - 1)],
                        DomainResultsFrom(fetched, sim.answers, 1, <<>>)) :
                 fetched \in {FetchFrom(qs, sim.question_order, 1)}} : TRUE

(***************************************************************************)
(* The routes (simulation_routes.py): a response is [status, body].        *)
(***************************************************************************)
Response(status, body) == [status |-> status, body |-> body]

\* POST /simulate/start, for the active certification
StartResponse(result) ==
    IF result = Null THEN Response(500, Null) ELSE Response(200, result)

SubmitResponseAlwaysOk(success) == Response(200, Some([submitted |-> TRUE]))

\* POST /simulate/answer
SubmitResponse(success) ==
    IF ~success THEN Response(404, Null) ELSE Response(200, Some([submitted |-> TRUE]))

\* POST /simulate/complete/{session_id}
CompleteResponse(result) ==
    IF result = Null THEN Response(404, Null) ELSE Response(200, result)

\* GET /simulate/results/{session_id}
GetResults(ss, session_id, user_id) ==
    IF session_id \notin 1..Len(ss) \/ ss[session_id].user_id # user_id
    THEN Response(404, Null)
    ELSE IF ~ss[session_id].is_complete
    THEN Response(400, Null)
    ELSE Response(200, Some(ss[session_id]))

(***************************************************************************)
(* The simulation sessions as a state machine: the requests of the routes, *)
(* one at a time.                                                          *)
(***************************************************************************)
\* the sequences over S of length at most n
RECURSIVE SeqsUpTo(_, _)
SeqsUpTo(S, n) ==
    IF n <= 0 THEN {<<>>}
    ELSE LET shorter == SeqsUpTo(S, n - 1)
         IN  shorter \cup {Append(t, x) : t \in shorter, x \in S}

\* The generator's outcomes for nd domains: the valid questions it returns,
\* at most room of them in all (the bank of the model holds MaxItems rows).
RECURSIVE GenChoices(_, _, _)
GenChoices(nd, room, indexes) ==
    IF nd = 0 THEN {<<>>}
    ELSE UNION {{<<t>> \o rest : rest \in GenChoices(nd - 1, room - Len(t), indexes)} :
                t \in SeqsUpTo({Some(c) : c \in indexes}, room)}

SessionSize(qs, gen) == Len(CollectFrom(qs, SimulationCounts, gen, 1, <<>>, 0).all_questions)

\* the question the client was shown at a position (0 when there is none)
QuestionIdAt(ss, session_id, question_index) ==
    IF session_id \in 1..Len(ss) /\ question_index < Len(ss[session_id].question_order)
    THEN ss[session_id].question_order[question_index + 1]
    ELSE 0

SessionIdInputs == 1..(MaxSessions + 1)
IndexInputs == 0..(MaxItems - 1)

SimInit ==
    /\ users = [u \in Users |-> [global_skill |-> ELO_DEFAULT_SKILL]]
    /\ questions = <<>>
    /\ simulation_sessions = <<>>
    /\ ret = NoRequest

RunTwoIdle == questions2 = <<>> /\ simulation_sessions2 = <<>> /\ ret2 = NoRequest
ReviewIdle == review_queue = <<>> /\ now = 0
QuotaIdle == quota_in = <<>> /\ quota_out = Null
ScoreIdle == score_in = <<>> /\ score_out = Null
TallyIdle == tally_in = <<>> /\ tally_out = Null
EnqueueIdle == review_rows = <<>> /\ adders = <<>>
SelectIdle == cert_domains = <<>> /\ generator_calls = 0
PassIdle == pass_in = <<>> /\ pass_out = Null
RatingIdle == rating_in = <<>> /\ rating_out = Null
RaceIdle == in_flight = <<>>
GenIdle == gen_in = <<>> /\ gen_out = Null
LoopIdle == loop_in = <<>> /\ loop_out = Null
ExamIdle ==
    /\ user_streaks = <<>>
    /\ question_stats = <<>>
    /\ user_domain_skills = <<>>
    /\ user_responses = <<>>
    /\ daily_activity = <<>>
    /\ exam_sessions = <<>>

StartSimulation ==
    /\ Len(simulation_sessions) < MaxSessions
    /\ \E u \in Starters :
       \E gen \in GenChoices(Len(Domains), MaxItems - Len(questions), GenIndexes) :
       \E perm \in Permutations(1..SessionSize(questions, gen)) :
          \E r \in {CreateSimulation(users, questions, simulation_sessions, u, gen, perm)} :
              /\ questions' = r.questions
              /\ simulation_sessions' = r.sessions
              /\ ret' = [op |-> "start", response |-> StartResponse(r.result)]
    /\ UNCHANGED <<users, runTwoVars, reviewVars, quotaVars, scoreVars, tallyVars, enqueueVars,
                   examVars, selectVars, passVars, ratingVars, raceVars, genVars, loopVars>>

\* POST /simulate/answer with the session id, position and time drawn from the sets given
Submit(sids, indexes, times) ==
    /\ \E sid \in sids, i \in indexes, sel \in OptionIndexes, t \in times :
          \E qid \in {QuestionIdAt(simulation_sessions, sid, i)} :
          \E r \in {SubmitSimAnswer(simulation_sessions, sid, qid, i, sel, t)} :
              /\ simulation_sessions' = r.sessions
              /\ ret' = [op |-> "answer", session_id |-> sid, question_id |-> qid,
                         question_index |-> i, selected_index |-> sel,
                         time_spent_seconds |-> t, response |-> SubmitResponse(r.result)]
    /\ UNCHANGED <<users, questions, runTwoVars, reviewVars, quotaVars, scoreVars, tallyVars,
                   enqueueVars, examVars, selectVars, passVars, ratingVars, raceVars, genVars,
                   loopVars>>

SubmitAnswer == Submit(SessionIdInputs, IndexInputs, TimesSpent)

CompleteSim ==
    /\ \E sid \in SessionIdInputs, u \in Users :
          \E r \in {CompleteSimulation(questions, simulation_sessions, sid, u)} :
              /\ simulation_sessions' = r.sessions
              /\ ret' = [op |-> "complete", session_id |-> sid,
                         response |-> CompleteResponse(r.result)]
    /\ UNCHANGED <<users, questions, runTwoVars, reviewVars, quotaVars, scoreVars, tallyVars,
                   enqueueVars, examVars, selectVars, passVars, ratingVars, raceVars, genVars,
                   loopVars>>

Results ==
    /\ \E sid \in SessionIdInputs, u \in Users :
          ret' = [op |-> "results", session_id |-> sid,
                  response |-> GetResults(simulation_sessions, sid, u)]
    /\ UNCHANGED <<users, questions, simulation_sessions, runTwoVars, reviewVars,
                   quotaVars, scoreVars, tallyVars, enqueueVars, examVars, selectVars,
                   passVars, ratingVars, raceVars, genVars, loopVars>>

Init == SimInit /\ RunTwoIdle /\ ReviewIdle /\ QuotaIdle /\ ScoreIdle /\ TallyIdle /\ EnqueueIdle /\ ExamIdle /\ SelectIdle /\ PassIdle /\ RatingIdle /\ RaceIdle /\ GenIdle /\ LoopIdle

Next == StartSimulation \/ SubmitAnswer \/ CompleteSim \/ Results

Spec == Init /\ [][Next]_vars

(***************************************************************************)
(* Properties of the session life cycle, under Spec.                       *)
(***************************************************************************)
SessionIds == 1..Len(simulation_sessions)

\* the step is a request of the given kind (ret' is the request just served)
Served(op) == ret'.op = op

\* C1: complete_simulation on a session whose is_complete is already true
\* fails and leaves the stored score, is_passed, correct_answers and
\* domain_results as they were.
C1_CompletedOnce ==
    [][(/\ Served("complete")
        /\ ret'.session_id \in SessionIds
        /\ simulation_sessions[ret'.session_id].is_complete)
       => (/\ ret'.response.status # 200
           /\ LET old == simulation_sessions[ret'.session_id]
                  new == simulation_sessions'[ret'.session_id]
              IN  /\ new.score = old.score
                  /\ new.is_passed = old.is_passed
                  /\ new.correct_answers = old.correct_answers
                  /\ new.domain_results = old.domain_results)]_vars

\* C2: once is_complete is set, no step changes the session's answers map or
\* its questions_answered counter.
C2_CompletedImmutable ==
    [][\A sid \in SessionIds :
          simulation_sessions[sid].is_complete
          => (/\ simulation_sessions'[sid].answers = simulation_sessions[sid].answers
              /\ simulation_sessions'[sid].questions_answered
                    = simulation_sessions[sid].questions_answered)]_vars

\* the sequences over S of a length from lo to hi
SeqsFromTo(S, lo, hi) == UNION {[1..n -> S] : n \in lo..hi}

(***************************************************************************)
(* Answer submission alone (simulation.py 181-214): a store of sessions in *)
(* progress is drawn, each over the same two questions and holding any     *)
(* answers; then answers are submitted.                                     *)
(***************************************************************************)
MaxStored == 2
MaxPosition == 1
StoredIdInputs == 1..(MaxStored + 1)
PositionInputs == 0..MaxPosition

StoredQuestions ==
    [i \in 1..(MaxPosition + 1) |->
        [domain_id |-> Domains[1].id, correct_index |-> 0,
         difficulty_estimate |-> ELO_DEFAULT_SKILL]]

\* the answers maps submissions can have built over the positions
StoredAnswers ==
    UNION {[answered -> {[question_id |-> 0, selected_index |-> sel,
                          time_spent_seconds |-> t] :
                            sel \in OptionIndexes, t \in TimesSpent}] :
           answered \in SUBSET PositionInputs}

InProgress(user_id, answers) ==
    [NewSession(user_id, [i \in 1..(MaxPosition + 1) |-> i]) EXCEPT
        !.answers = [i \in DOMAIN answers |-> [answers[i] EXCEPT !.question_id = i + 1]],
        !.questions_answered = Cardinality(DOMAIN answers)]

StoredSessions ==
    {[i \in 1..Len(as) |-> InProgress("u1", as[i])] :
        as \in SeqsFromTo(StoredAnswers, 0, MaxStored)}

SubmitInit ==
    /\ users = [u \in Users |-> [global_skill |-> ELO_DEFAULT_SKILL]]
    /\ questions = StoredQuestions
    /\ simulation_sessions \in StoredSessions
    /\ ret = NoRequest
    /\ RunTwoIdle /\ ReviewIdle /\ QuotaIdle /\ ScoreIdle /\ TallyIdle /\ EnqueueIdle /\ ExamIdle /\ SelectIdle /\ PassIdle /\ RatingIdle /\ RaceIdle /\ GenIdle /\ LoopIdle

SubmitStored == Submit(StoredIdInputs, PositionInputs, TimesSpent)

NextSubmit == SubmitStored

SpecSubmit == SubmitInit /\ [][NextSubmit]_vars

\* C7: an accepted answer is stored at its position with the submitted fields,
\* replacing what was there; the answers at all other positions and all other
\* sessions are unchanged; questions_answered is the number of distinct
\* positions answered; and submitting the same answer again changes nothing.
C7_SubmitOverwritesByPosition ==
    [][(Served("answer") /\ ret'.response.status = 200)
       => LET sid == ret'.session_id
              i   == ret'.question_index
              old == simulation_sessions[sid]
              new == simulation_sessions'[sid]
          IN  /\ sid \in SessionIds
              /\ DOMAIN new.answers = DOMAIN old.answers \cup {i}
              /\ new.answers[i] = [question_id |-> ret'.question_id,
                                   selected_index |-> ret'.selected_index,
                                   time_spent_seconds |-> ret'.time_spent_seconds]
              /\ \A j \in DOMAIN old.answers \ {i} : new.answers[j] = old.answers[j]
              /\ new.questions_answered = Cardinality(DOMAIN new.answers)
              /\ \A other \in SessionIds \ {sid} :
                    simulation_sessions'[other] = simulation_sessions[other]
              /\ SubmitSimAnswer(simulation_sessions', sid, ret'.question_id, i,
                                 ret'.selected_index, ret'.time_spent_seconds).sessions
                    = simulation_sessions']_vars

\* a session holding answers at two positions, the last request an accepted answer
\* and another session holding an answer of its own
C7_Witness ==
    /\ ret.op = "answer" /\ ret.response.status = 200
    /\ Cardinality(DOMAIN simulation_sessions[ret.session_id].answers) = 2
    /\ simulation_sessions[ret.session_id].questions_answered = 2
    /\ \E other \in SessionIds \ {ret.session_id} :
          simulation_sessions[other].answers # <<>>

\* C8: an answer for a session id that matches no stored session is refused
\* with 404 and no session row is written.
C8_UnknownSessionRefused ==
    [][(Served("answer") /\ ret'.session_id \notin SessionIds)
       => (/\ ret'.response.status = 404
           /\ simulation_sessions' = simulation_sessions)]_vars

\* two sessions are stored, with answers, and an answer for another id was
\* just refused
C8_Witness ==
    /\ ret.op = "answer" /\ ret.response.status = 404
    /\ ret.session_id \notin SessionIds
    /\ Len(simulation_sessions) = 2
    /\ \A sid \in SessionIds : simulation_sessions[sid].answers # <<>>

(***************************************************************************)
(* Quota allocation alone (simulation.py 46-57): the domain list of a      *)
(* certification is drawn, then the counts are computed.                    *)
(***************************************************************************)
MaxQuotaDomains == 4
\* weights in thousandths; 0.025 * 60 and 0.275 * 60 fall on a half
QuotaWeights == {0, 25, 175, 275, 500, 1000}

DomainLists ==
    {[i \in 1..Len(ws) |-> [id |-> i, weight |-> ws[i]]] :
        ws \in SeqsFromTo(QuotaWeights, 1, MaxQuotaDomains)}

SimIdle == SimInit

QuotaInit ==
    /\ quota_in \in DomainLists
    /\ quota_out = Null
    /\ SimIdle /\ RunTwoIdle /\ ReviewIdle /\ ScoreIdle /\ TallyIdle /\ EnqueueIdle /\ ExamIdle /\ SelectIdle /\ PassIdle /\ RatingIdle /\ RaceIdle /\ GenIdle /\ LoopIdle

AllocateQuotas ==
    /\ quota_out = Null
    /\ \E counts \in {DomainQuestionCounts(quota_in)} : quota_out' = Some(counts)
    /\ UNCHANGED <<quota_in, simVars, runTwoVars, reviewVars, scoreVars, tallyVars, enqueueVars,
                   examVars, selectVars, passVars, ratingVars, raceVars, genVars, loopVars>>

NextQuota == AllocateQuotas

SpecQuota == QuotaInit /\ [][NextQuota]_vars

\* C3: for every non-empty domain list and every weights, there is one quota
\* per domain and the quotas sum to exactly 60.
C3_QuotasSumToTotal ==
    quota_out # Null
    => (/\ Len(quota_out[1]) = Len(quota_in)
        /\ SumSeq(quota_out[1]) = total_questions)

\* the PL-300 weights: 16.5 rounds to 16 three times and the last domain takes 12
C3_Witness ==
    /\ quota_out = Some(<<16, 16, 16, 12>>)
    /\ [i \in 1..Len(quota_in) |-> quota_in[i].weight] = PL300_DOMAIN_WEIGHTS

\* C27: for the four domains weighted 0.275, 0.275, 0.275 and 0.175 and a
\* total of 60 the quotas are 17, 17, 17 and 9.
C27_DocumentedQuotas ==
    /\ quota_out # Null
    /\ [i \in 1..Len(quota_in) |-> quota_in[i].weight] = PL300_DOMAIN_WEIGHTS
    => quota_out = Some(<<17, 17, 17, 9>>)

(***************************************************************************)
(* The weighted score alone (simulation.py 301-310): the per-domain        *)
(* results of a session are drawn, then the score is computed.  Either     *)
(* every domain has the same weight and the same counts, or the domains    *)
(* are a run of the certification's domains with counts of their own.      *)
(***************************************************************************)
MaxScoreDomains == 3
MaxTotal == 16
MaxMixedTotal == 2
ScoreWeights == {175, 275}

DomainResult(name, weight, correct, total) ==
    [domain_name |-> name, questions_total |-> total, questions_correct |-> correct,
     weight |-> weight]

CountPairs(maxTotal) == {ct \in (0..maxTotal) \X (1..maxTotal) : ct[1] <= ct[2]}

UniformResults ==
    {[i \in 1..n |-> DomainResult(i, w, ct[1], ct[2])] :
        n \in 1..MaxScoreDomains, w \in ScoreWeights, ct \in CountPairs(MaxTotal)}

MixedResults ==
    UNION {{[i \in 1..n |-> DomainResult(Domains[first + i - 1].id,
                                         Domains[first + i - 1].weight,
                                         cts[i][1], cts[i][2])] :
               cts \in [1..n -> CountPairs(MaxMixedTotal)],
               first \in 1..(Len(Domains) - n + 1)} :
           n \in 1..Min(MaxScoreDomains, Len(Domains))}

ScoreInit ==
    /\ score_in \in UniformResults \cup MixedResults
    /\ score_out = Null
    /\ SimIdle /\ RunTwoIdle /\ ReviewIdle /\ QuotaIdle /\ TallyIdle /\ EnqueueIdle /\ ExamIdle /\ SelectIdle /\ PassIdle /\ RatingIdle /\ RaceIdle /\ GenIdle /\ LoopIdle

ComputeScore ==
    /\ score_out = Null
    /\ \E score \in {SimScore(score_in)} :
          score_out' = Some([score |-> score, is_passed |-> IsPassed(score)])
    /\ UNCHANGED <<score_in, simVars, runTwoVars, reviewVars, quotaVars, tallyVars, enqueueVars,
                   examVars, selectVars, passVars, ratingVars, raceVars, genVars, loopVars>>

NextScore == ComputeScore

SpecScore == ScoreInit /\ [][NextScore]_vars

\* the exact weighted accuracy of the domain results is ExactNum / ExactDen
RECURSIVE TotalsProduct(_, _, _)
TotalsProduct(drs, i, skip) ==
    IF i > Len(drs) THEN 1
    ELSE (IF i = skip THEN 1 ELSE drs[i].questions_total) * TotalsProduct(drs, i + 1, skip)

RECURSIVE ExactNumFrom(_, _)
ExactNumFrom(drs, i) ==
    IF i > Len(drs) THEN 0
    ELSE drs[i].weight * drs[i].questions_correct * TotalsProduct(drs, 1, i)
         + ExactNumFrom(drs, i + 1)

ExactNum(drs) == ExactNumFrom(drs, 1)
ExactDen(drs) == SumSeq([i \in 1..Len(drs) |-> drs[i].weight]) * TotalsProduct(drs, 1, 0)

\* | score - 1000 * num / den | <= 1/2, in exact arithmetic
NearestTo(score, num, den) ==
    LET a    == BMulSmall(BFromInt(den), score)
        b    == BMulSmall(BFromInt(num), 1000)
        diff == IF BCmp(a, b) >= 0 THEN BSub(a, b) ELSE BSub(b, a)
    IN  BCmp(BMulSmall(diff, 2), BFromInt(den)) <= 0

\* C4: the score is the sum over the domains of
\* (weight_d / total weight) * (correct_d / total_d) * 1000 rounded to an integer
\* (an integer nearest to the exact sum), it lies in 0..1000, and is_passed is
\* true exactly when score >= 700.
C4_ScoreIsRoundedWeightedAccuracy ==
    score_out # Null
    => LET score == score_out[1].score
       IN  /\ score \in 0..1000
           /\ NearestTo(score, ExactNum(score_in), ExactDen(score_in))
           /\ score_out[1].is_passed = (score >= 700)

\* two PL-300 domains of unequal weight, one all correct and one half correct:
\* (0.175 * 1 + 0.275 * 0.5) / 0.45 = 0.6944..., scored 694, not passed
C4_Witness ==
    /\ score_out # Null
    /\ Len(score_in) = 2
    /\ score_in[1].weight # score_in[2].weight
    /\ score_in[1].questions_correct < score_in[1].questions_total
    /\ score_in[2].questions_correct = score_in[2].questions_total
    /\ score_out[1].score \in 1..699
    /\ ~score_out[1].is_passed

\* every domain has the weight and the accuracy of the first
UniformInput(drs) ==
    \A i \in 1..Len(drs) :
        /\ drs[i].weight = drs[1].weight
        /\ drs[i].questions_correct * drs[1].questions_total
             = drs[1].questions_correct * drs[i].questions_total

\* C6: when every domain has the same weight and the same accuracy
\* p = correct / total, the score equals round(p * 1000).
C6_UniformScore ==
    (score_out # Null /\ UniformInput(score_in))
    => score_out[1].score
         = PyRound(FMul(IntDiv(score_in[1].questions_correct, score_in[1].questions_total),
                        FromInt(1000)))

(***************************************************************************)
(* The scoring loop alone (simulation.py 258-291): the rows fetched for    *)
(* question_order and the session's answers are drawn, then the loop runs. *)
(* No question row is ever deleted, so every position has its row.         *)
(***************************************************************************)
MaxTallyItems == 2
\* a domain of the certification, and 0 for a row with no domain joined
TallyDomains == {0, 4}
CorrectIndexes == 0..MaxOptionIndex

FetchedLists ==
    {[i \in 1..Len(rows) |-> [id |-> i, domain_id |-> rows[i][1], correct_index |-> rows[i][2]]] :
        rows \in SeqsFromTo(TallyDomains \X CorrectIndexes, 1, MaxTallyItems)}

\* an answers map over some of the positions 0..n-1, each with a valid selected_index
AnswerMaps(fetched) ==
    UNION {[answered -> {[question_id |-> 0, selected_index |-> sel,
                          time_spent_seconds |-> Null] : sel \in CorrectIndexes}] :
           answered \in SUBSET (0..(Len(fetched) - 1))}

WithQuestionIds(fetched, answers) ==
    [i \in DOMAIN answers |-> [answers[i] EXCEPT !.question_id = fetched[i + 1].id]]

TallyInit ==
    /\ \E fetched \in FetchedLists : \E answers \in AnswerMaps(fetched) :
          tally_in = [fetched |-> fetched, answers |-> WithQuestionIds(fetched, answers)]
    /\ tally_out = Null
    /\ SimIdle /\ RunTwoIdle /\ ReviewIdle /\ QuotaIdle /\ ScoreIdle /\ EnqueueIdle /\ ExamIdle /\ SelectIdle /\ PassIdle /\ RatingIdle /\ RaceIdle /\ GenIdle /\ LoopIdle

Tally ==
    /\ tally_out = Null
    /\ tally_out' =
          Some([question_results |->
                    [i \in 1..Len(tally_in.fetched) |->
                        QuestionResult(tally_in.fetched[i], tally_in.answers, i - 1)],
                domain_results |->
                    DomainResultsFrom(tally_in.fetched, tally_in.answers, 1, <<>>)])
    /\ UNCHANGED <<tally_in, simVars, runTwoVars, reviewVars, quotaVars, scoreVars, enqueueVars,
                   examVars, selectVars, passVars, ratingVars, raceVars, genVars, loopVars>>

NextTally == Tally

SpecTally == TallyInit /\ [][NextTally]_vars

\* the positions (from 0) of the rows of a domain, and those answered correctly
PositionsOf(name) ==
    {i \in 0..(Len(tally_in.fetched) - 1) : DomainName(tally_in.fetched[i + 1]) = name}

AnsweredCorrectly(i) ==
    /\ i \in DOMAIN tally_in.answers
    /\ tally_in.answers[i].selected_index = tally_in.fetched[i + 1].correct_index

PyMin(a, b) == IF FCmp(b, a) < 0 THEN b ELSE a
PyMax(a, b) == IF FCmp(b, a) > 0 THEN b ELSE a

EaseMax == FDec(25, 1)
EaseMin == FDec(13, 1)
EaseUp == FDec(1, 1)
EaseDown == FDec(2, 1)
MasteryKeep == FDec(7, 1)
MasteryGain == FMul(FDec(3, 1), FromInt(1))
MasteryNone == FMul(FDec(3, 1), FromInt(0))

ReviewRow(source, at) ==
    [interval_hours |-> 24, ease_factor |-> EaseMax, repetitions |-> 0,
     mastery_score |-> 0, next_review_at |-> at + 24, source |-> source]

\* a variant that overwrites the row of a pair already queued
AddToReviewQueueReset(rq, user_id, question_id, source, at) ==
    [queue |-> [k \in DOMAIN rq \cup {<<user_id, question_id>>} |->
                   IF k = <<user_id, question_id>> THEN ReviewRow(source, at) ELSE rq[k]],
     result |-> <<user_id, question_id>> \notin DOMAIN rq]

\* add_to_review_queue: False when the pair is already queued
AddToReviewQueue(rq, user_id, question_id, source, at) ==
    IF <<user_id, question_id>> \in DOMAIN rq
    THEN [queue |-> rq, result |-> FALSE]
    ELSE [queue |-> [k \in DOMAIN rq \cup {<<user_id, question_id>>} |->
                        IF k = <<user_id, question_id>> THEN ReviewRow(source, at) ELSE rq[k]],
          result |-> TRUE]

EaseAfterUnclamped(ease, is_correct) ==
    IF is_correct THEN FAdd(ease, EaseUp) ELSE FSub(ease, EaseDown)

\* ease = min(2.5, ease + 0.1) / ease = max(1.3, ease - 0.2)
EaseAfter(ease, is_correct) ==
    IF is_correct THEN PyMin(EaseMax, FAdd(ease, EaseUp))
    ELSE PyMax(EaseMin, FSub(ease, EaseDown))

\* a variant that halves the interval after an incorrect review
IntervalAfterHalved(interval, ease, is_correct) ==
    IF is_correct THEN PyInt(FMul(FromInt(interval), ease))
    ELSE IF interval \div 2 > 24 THEN interval \div 2 ELSE 24

\* a variant that multiplies by the ease factor already raised
IntervalAfterRaisedEase(interval, ease, is_correct) ==
    IF is_correct THEN PyInt(FMul(FromInt(interval), EaseAfter(ease, TRUE))) ELSE 24

\* interval = int(interval * ease) / interval = 24
IntervalAfter(interval, ease, is_correct) ==
    IF is_correct THEN PyInt(FMul(FromInt(interval), ease)) ELSE 24

\* round(0.7 * mastery + 0.3 * outcome, 3), in thousandths
MasteryAfter(mastery, is_correct) ==
    PyRoundDigits(FAdd(FMul(MasteryKeep, FDec(mastery, 3)),
                       IF is_correct THEN MasteryGain ELSE MasteryNone), 3)

\* update_review_after_answer: nothing happens when the pair is not queued
UpdateReviewAfterAnswer(rq, user_id, question_id, is_correct, at) ==
    IF <<user_id, question_id>> \notin DOMAIN rq THEN rq
    ELSE CHOOSE r \in
            {[rq EXCEPT ![<<user_id, question_id>>] =
                 [interval_hours |-> interval, ease_factor |-> ease,
                  repetitions |-> item.repetitions + (IF is_correct THEN 1 ELSE 0),
                  mastery_score |-> mastery, next_review_at |-> at + interval,
                  source |-> item.source]] :
             item \in {rq[<<user_id, question_id>>]},
             interval \in {IntervalAfter(rq[<<user_id, question_id>>].interval_hours,
                                         rq[<<user_id, question_id>>].ease_factor, is_correct)},
             ease \in {EaseAfter(rq[<<user_id, question_id>>].ease_factor, is_correct)},
             mastery \in {MasteryAfter(rq[<<user_id, question_id>>].mastery_score, is_correct)}} :
            TRUE

\* remove_from_review_queue
RemoveFromReviewQueue(rq, user_id, question_id) ==
    [queue |-> [k \in DOMAIN rq \ {<<user_id, question_id>>} |-> rq[k]],
     result |-> <<user_id, question_id>> \in DOMAIN rq]

\* bounds of the review model
MaxReps == 3
MaxDays == 1
ReviewUsers == {"u1"}
ReviewQuestions == {1}
Sources == {"manual", "auto"}

ReviewInit ==
    /\ review_queue = <<>>
    /\ now = 0
    /\ SimIdle /\ RunTwoIdle /\ QuotaIdle /\ ScoreIdle /\ TallyIdle /\ EnqueueIdle /\ ExamIdle /\ SelectIdle /\ PassIdle /\ RatingIdle /\ RaceIdle /\ GenIdle /\ LoopIdle

\* the review actions record the request served and its result in ret
AddReview ==
    /\ \E u \in ReviewUsers, q \in ReviewQuestions, source \in Sources :
          \E r \in {AddToReviewQueue(review_queue, u, q, source, now)} :
             /\ review_queue' = r.queue
             /\ ret' = [op |-> "enqueue", user_id |-> u, question_id |-> q,
                        source |-> source, response |-> r.result]
    /\ UNCHANGED <<now, users, questions, simulation_sessions, runTwoVars,
                   quotaVars, scoreVars, tallyVars, enqueueVars, examVars, selectVars,
                   passVars, ratingVars, raceVars, genVars, loopVars>>

\* the repetitions counter is unbounded in the program: the model stops
\* counting correct reviews of a row at MaxReps
UpdateReview ==
    /\ \E u \in ReviewUsers, q \in ReviewQuestions, is_correct \in BOOLEAN :
          /\ (is_correct /\ <<u, q>> \in DOMAIN review_queue)
                => review_queue[<<u, q>>].repetitions < MaxReps
          /\ review_queue' = UpdateReviewAfterAnswer(review_queue, u, q, is_correct, now)
          /\ ret' = [op |-> "review", user_id |-> u, question_id |-> q,
                     is_correct |-> is_correct]
    /\ UNCHANGED <<now, users, questions, simulation_sessions, runTwoVars,
                   quotaVars, scoreVars, tallyVars, enqueueVars, examVars, selectVars,
                   passVars, ratingVars, raceVars, genVars, loopVars>>

RemoveReview ==
    /\ \E u \in ReviewUsers, q \in ReviewQuestions :
          \E r \in {RemoveFromReviewQueue(review_queue, u, q)} :
             /\ review_queue' = r.queue
             /\ ret' = [op |-> "dequeue", user_id |-> u, question_id |-> q,
                        response |-> r.result]
    /\ UNCHANGED <<now, users, questions, simulation_sessions, runTwoVars,
                   quotaVars, scoreVars, tallyVars, enqueueVars, examVars, selectVars,
                   passVars, ratingVars, raceVars, genVars, loopVars>>

Tick ==
    /\ now < MaxDays * 24
    /\ now' = now + 24
    /\ ret' = NoRequest
    /\ UNCHANGED <<review_queue, users, questions, simulation_sessions, runTwoVars,
                   quotaVars, scoreVars, tallyVars, enqueueVars, examVars, selectVars,
                   passVars, ratingVars, raceVars, genVars, loopVars>>

NextReview == AddReview \/ UpdateReview \/ RemoveReview \/ Tick

SpecReview == ReviewInit /\ [][NextReview]_vars

\* C10: the ease_factor of every queued row stays within [1.3, 2.5].
C10_EaseWithinBounds ==
    \A k \in DOMAIN review_queue :
        /\ FCmp(review_queue[k].ease_factor, EaseMin) >= 0
        /\ FCmp(review_queue[k].ease_factor, EaseMax) <= 0

\* a row that was driven down to the floor and reviewed correctly since
C10_Witness ==
    \E k \in DOMAIN review_queue :
        /\ review_queue[k].repetitions > 0
        /\ review_queue[k].ease_factor = FAdd(EaseMin, EaseUp)

\* the step serves a review with outcome ok of the queued pair k
Reviewed(k, ok) ==
    /\ ret'.op = "review"
    /\ ret'.is_correct = ok
    /\ k = <<ret'.user_id, ret'.question_id>>
    /\ k \in DOMAIN review_queue
    /\ k \in DOMAIN review_queue'

\* an ease factor to four decimals, in ten-thousandths
EaseDecimal(ease) == PyRoundDigits(ease, 4)

\* C11: interval_hours of every queued row is an integer of at least 24; an
\* incorrect review leaves it at exactly 24 whatever it was, and lowers the
\* ease factor by 0.2 but never below 1.3.
C11_IncorrectResetsInterval ==
    [][/\ \A k \in DOMAIN review_queue' :
             /\ review_queue'[k].interval_hours \in Nat
             /\ review_queue'[k].interval_hours >= 24
       /\ \A k \in DOMAIN review_queue :
             Reviewed(k, FALSE) =>
                /\ review_queue'[k].interval_hours = 24
                /\ FCmp(review_queue'[k].ease_factor, EaseMin) >= 0
                /\ EaseDecimal(review_queue'[k].ease_factor) =
                      Max(13000, EaseDecimal(review_queue[k].ease_factor) - 2000)]_vars

\* an incorrect review of a row that three correct reviews had taken to an
\* interval above 24 at the highest ease factor
C11_Witness ==
    /\ ret.op = "review"
    /\ ~ret.is_correct
    /\ \E k \in DOMAIN review_queue :
           /\ k = <<ret.user_id, ret.question_id>>
           /\ review_queue[k].repetitions = MaxReps
           /\ review_queue[k].interval_hours = 24
           /\ review_queue[k].ease_factor = FSub(EaseMax, EaseDown)

\* floor of the exact product of an interval and an ease factor
ExactFloor(interval, ease) ==
    IF ease.e >= 0 THEN BToInt(BShl(BMulSmall(ease.m, interval), ease.e))
    ELSE BToInt(BShr(BMulSmall(ease.m, interval), 0 - ease.e))

\* C12: a correct review sets the interval to the floor of interval * ease,
\* the product taken in double precision with the ease factor the row had
\* before the review, and then raises the ease factor by 0.1 up to 2.5; a
\* fresh row (ease 2.5, interval 24) goes to 60 and then to 150.
C12_CorrectMultipliesByOldEase ==
    [][\A k \in DOMAIN review_queue :
          Reviewed(k, TRUE) =>
             /\ review_queue'[k].interval_hours =
                   PyInt(FMul(FromInt(review_queue[k].interval_hours),
                              review_queue[k].ease_factor))
             /\ review_queue'[k].interval_hours \in
                   {ExactFloor(review_queue[k].interval_hours, review_queue[k].ease_factor),
                    ExactFloor(review_queue[k].interval_hours, review_queue[k].ease_factor) + 1}
             /\ FCmp(review_queue'[k].ease_factor, EaseMax) <= 0
             /\ EaseDecimal(review_queue'[k].ease_factor) =
                   Min(25000, EaseDecimal(review_queue[k].ease_factor) + 1000)
             /\ review_queue'[k].repetitions = review_queue[k].repetitions + 1
             /\ (review_queue[k].ease_factor = EaseMax /\ review_queue[k].interval_hours = 24)
                   => review_queue'[k].interval_hours = 60
             /\ (review_queue[k].ease_factor = EaseMax /\ review_queue[k].interval_hours = 60)
                   => review_queue'[k].interval_hours = 150]_vars

\* the second of two correct reviews of a fresh row
C12_Witness ==
    /\ ret.op = "review"
    /\ ret.is_correct
    /\ \E k \in DOMAIN review_queue :
           /\ k = <<ret.user_id, ret.question_id>>
           /\ review_queue[k].repetitions = 2
           /\ review_queue[k].interval_hours = 150
           /\ review_queue[k].ease_factor = EaseMax

\* C13: adding a pair that is already queued returns False and leaves its
\* row (ease, interval, repetitions, mastery, next_review_at, source) as it
\* was; adding a pair that is not queued returns True and creates the row
\* with ease 2.5, interval 24, repetitions 0, mastery 0, next_review_at 24
\* hours from now and the source given.
C13_AddKeepsExistingRow ==
    [][ret'.op = "enqueue" =>
          IF <<ret'.user_id, ret'.question_id>> \in DOMAIN review_queue
          THEN /\ ret'.response = FALSE
               /\ <<ret'.user_id, ret'.question_id>> \in DOMAIN review_queue'
               /\ review_queue'[<<ret'.user_id, ret'.question_id>>] =
                     review_queue[<<ret'.user_id, ret'.question_id>>]
          ELSE /\ ret'.response = TRUE
               /\ <<ret'.user_id, ret'.question_id>> \in DOMAIN review_queue'
               /\ review_queue'[<<ret'.user_id, ret'.question_id>>] =
                     [interval_hours |-> 24, ease_factor |-> FDec(25, 1),
                      repetitions |-> 0, mastery_score |-> 0,
                      next_review_at |-> now + 24, source |-> ret'.source]]_vars

\* a manual add refused for a row that was queued automatically, reviewed
\* since and due at another time than a new row would be
C13_Witness ==
    /\ ret.op = "enqueue"
    /\ ret.response = FALSE
    /\ ret.source = "manual"
    /\ \E k \in DOMAIN review_queue :
           /\ k = <<ret.user_id, ret.question_id>>
           /\ review_queue[k].source = "auto"
           /\ review_queue[k].repetitions > 0
           /\ review_queue[k].next_review_at # now + 24

(***************************************************************************)
(* add_to_review_queue call by call.  The function makes two calls to the  *)
(* store, a select of the rows of the pair and, when there is none, an     *)
(* insert; handlers serving different requests take turns at the store     *)
(* between the two.  review_queue is kept as the list of its rows here, so *)
(* that two rows of one pair can be told from one.                         *)
(***************************************************************************)
MaxHandlers == 2
Handlers == 1..MaxHandlers
EnqueueQuestions == {1, 2}
AdderIdle == [pc |-> "idle"]

\* the rows the select of add_to_review_queue returns
ExistingRows(rows, user_id, question_id) ==
    {i \in 1..Len(rows) : rows[i].user_id = user_id /\ rows[i].question_id = question_id}

\* the row add_to_review_queue inserts
InsertedRow(user_id, question_id, source, at) ==
    [user_id |-> user_id, question_id |-> question_id, row |-> ReviewRow(source, at)]

EnqueueInit ==
    /\ review_rows = <<>>
    /\ adders = [h \in Handlers |-> AdderIdle]
    /\ SimIdle /\ RunTwoIdle /\ ReviewIdle /\ QuotaIdle /\ ScoreIdle /\ TallyIdle /\ ExamIdle /\ SelectIdle /\ PassIdle /\ RatingIdle /\ RaceIdle /\ GenIdle /\ LoopIdle

\* a call starts and selects the rows of its pair; it returns False when
\* there is one
AddSelect(h) ==
    /\ adders[h].pc = "idle"
    /\ \E u \in ReviewUsers, q \in EnqueueQuestions, source \in Sources :
          adders' = [adders EXCEPT ![h] =
                       IF ExistingRows(review_rows, u, q) # {}
                       THEN [pc |-> "returned", user_id |-> u, question_id |-> q,
                             source |-> source, result |-> FALSE]
                       ELSE [pc |-> "insert", user_id |-> u, question_id |-> q,
                             source |-> source]]
    /\ UNCHANGED <<review_rows, simVars, runTwoVars, reviewVars, quotaVars, scoreVars,
                   tallyVars, examVars, selectVars, passVars, ratingVars, raceVars, genVars,
                   loopVars>>

\* the call inserts its row and returns True
AddInsert(h) ==
    /\ adders[h].pc = "insert"
    /\ review_rows' = Append(review_rows,
                             InsertedRow(adders[h].user_id, adders[h].question_id,
                                         adders[h].source, now))
    /\ adders' = [adders EXCEPT ![h] =
                    [pc |-> "returned", user_id |-> adders[h].user_id,
                     question_id |-> adders[h].question_id,
                     source |-> adders[h].source, result |-> TRUE]]
    /\ UNCHANGED <<simVars, runTwoVars, reviewVars, quotaVars, scoreVars, tallyVars, examVars,
                   selectVars, passVars, ratingVars, raceVars, genVars, loopVars>>

\* the handler is free for the next request
AddReturn(h) ==
    /\ adders[h].pc = "returned"
    /\ adders' = [adders EXCEPT ![h] = AdderIdle]
    /\ UNCHANGED <<review_rows, simVars, runTwoVars, reviewVars, quotaVars, scoreVars,
                   tallyVars, examVars, selectVars, passVars, ratingVars, raceVars, genVars,
                   loopVars>>

NextEnqueue == \E h \in Handlers : AddSelect(h) \/ AddInsert(h) \/ AddReturn(h)

SpecEnqueue == EnqueueInit /\ [][NextEnqueue]_vars

\* C14: the review queue never holds two rows of the same (learner, item)
\* pair, however the calls of add_to_review_queue and
\* auto_queue_weak_concept for the pair interleave.
C14_OneRowPerPair ==
    \A i, j \in 1..Len(review_rows) :
        (/\ review_rows[i].user_id = review_rows[j].user_id
         /\ review_rows[i].question_id = review_rows[j].question_id) => i = j

(***************************************************************************)
(* The adaptive exam routes: POST /exam/session/start and POST             *)
(* /exam/submit-answer.  Ratings are whole rating points in this model:    *)
(* K * expected_score, which the program computes with 10.0 ** x, is taken *)
(* to the nearest whole point (KExpected).  A request to submit names the  *)
(* store calls of the non-critical steps that raise while it is served.    *)
(***************************************************************************)
ELO_K_FACTOR == 32
MaxResponses == 2
MaxExamSessions == 1
ExamUsers == {"u1"}
Faults == {"daily", "streak", "queue"}

\* ExpectedSteps[j] is the greatest question_difficulty - user_skill, in
\* whole points, at which round(32 / (1 + 10 ** (difference / 400))) >= j
ExpectedSteps ==
    <<719, 523, 428, 364, 314, 273, 237, 205, 176, 149, 124, 100, 77, 54, 32, 10,
      -11, -33, -55, -78, -101, -125, -150, -177, -206, -238, -274, -315, -365,
      -429, -524, -720>>

\* ELO_K_FACTOR * expected_score(user_skill, question_difficulty)
KExpected(user_skill, question_difficulty) ==
    Cardinality({j \in 1..ELO_K_FACTOR :
                    question_difficulty - user_skill <= ExpectedSteps[j]})

\* update_ratings
UpdateRatings(user_skill, question_difficulty, is_correct) ==
    [user_skill |-> user_skill + (IF is_correct THEN ELO_K_FACTOR ELSE 0)
                      - KExpected(user_skill, question_difficulty),
     question_difficulty |-> question_difficulty
                      + KExpected(user_skill, question_difficulty)
                      - (IF is_correct THEN ELO_K_FACTOR ELSE 0)]

\* date.today(), as a day number
Today(at) == at \div 24

\* a variant that starts a learner without a row at ELO_DEFAULT_SKILL - 100
DomainSkillFromHandicap(uds, user_id, domain_id, difficulty, is_correct) ==
    IF <<user_id, domain_id>> \in DOMAIN uds
    THEN [skill_rating |-> UpdateRatings(uds[<<user_id, domain_id>>].skill_rating,
                                         difficulty, is_correct).user_skill,
          questions_answered |-> uds[<<user_id, domain_id>>].questions_answered + 1,
          questions_correct |-> uds[<<user_id, domain_id>>].questions_correct
                                  + (IF is_correct THEN 1 ELSE 0)]
    ELSE [skill_rating |-> UpdateRatings(ELO_DEFAULT_SKILL - 100, difficulty,
                                         is_correct).user_skill,
          questions_answered |-> 1,
          questions_correct |-> IF is_correct THEN 1 ELSE 0]

\* a variant that counts in questions_answered the correct answers only
DomainSkillCountingCorrect(uds, user_id, domain_id, difficulty, is_correct) ==
    IF <<user_id, domain_id>> \in DOMAIN uds
    THEN [skill_rating |-> UpdateRatings(uds[<<user_id, domain_id>>].skill_rating,
                                         difficulty, is_correct).user_skill,
          questions_answered |-> uds[<<user_id, domain_id>>].questions_answered
                                   + (IF is_correct THEN 1 ELSE 0),
          questions_correct |-> uds[<<user_id, domain_id>>].questions_correct
                                  + (IF is_correct THEN 1 ELSE 0)]
    ELSE [skill_rating |-> UpdateRatings(1000, difficulty, is_correct).user_skill,
          questions_answered |-> IF is_correct THEN 1 ELSE 0,
          questions_correct |-> IF is_correct THEN 1 ELSE 0]

\* the row of user_domain_skills after the answer
DomainSkillAfter(uds, user_id, domain_id, difficulty, is_correct) ==
    IF <<user_id, domain_id>> \in DOMAIN uds
    THEN [skill_rating |-> UpdateRatings(uds[<<user_id, domain_id>>].skill_rating,
                                         difficulty, is_correct).user_skill,
          questions_answered |-> uds[<<user_id, domain_id>>].questions_answered + 1,
          questions_correct |-> uds[<<user_id, domain_id>>].questions_correct
                                  + (IF is_correct THEN 1 ELSE 0)]
    ELSE [skill_rating |-> UpdateRatings(1000, difficulty, is_correct).user_skill,
          questions_answered |-> 1,
          questions_correct |-> IF is_correct THEN 1 ELSE 0]

\* exam_sessions after the answer: the counters of the session named
SessionsAfter(es, session_id, is_correct, skill_after) ==
    IF session_id = Null THEN es
    ELSE [es EXCEPT ![session_id[1]] =
            [@ EXCEPT !.total_questions = @ + 1,
                      !.correct_answers = @ + (IF is_correct THEN 1 ELSE 0),
                      !.skill_after = Some(skill_after)]]

\* daily_activity after the answer; nothing is written when the call raises
DailyAfter(da, user_id, today, is_correct, time_spent, failed) ==
    IF "daily" \in failed THEN da
    ELSE IF <<user_id, today>> \in DOMAIN da
    THEN [da EXCEPT ![<<user_id, today>>] =
            [questions_answered |-> @.questions_answered + 1,
             questions_correct |-> @.questions_correct + (IF is_correct THEN 1 ELSE 0),
             time_spent_seconds |-> @.time_spent_seconds
                                      + (IF time_spent = Null THEN 0 ELSE time_spent[1])]]
    ELSE [k \in DOMAIN da \cup {<<user_id, today>>} |->
            IF k = <<user_id, today>>
            THEN [questions_answered |-> 1,
                  questions_correct |-> IF is_correct THEN 1 ELSE 0,
                  time_spent_seconds |-> IF time_spent = Null THEN 0 ELSE time_spent[1]]
            ELSE da[k]]

\* new_streak, from the user row read at the start of the request
NewStreak(u, today) ==
    IF u.last_active_date = Some(today - 1) THEN u.current_streak + 1
    ELSE IF u.last_active_date = Some(today)
         THEN (IF u.current_streak = 0 THEN 1 ELSE u.current_streak)
         ELSE 1

\* the streak columns after the answer; the update is in the try block of
\* the daily activity and is skipped when that raised
StreakAfter(u, today, failed) ==
    IF "daily" \in failed \/ "streak" \in failed THEN u
    ELSE [current_streak |-> NewStreak(u, today),
          longest_streak |-> Max(NewStreak(u, today), u.longest_streak),
          last_active_date |-> Some(today)]

\* a variant in which a failure of the daily activity or streak step ends
\* the bookkeeping of the request
AutoQueueUnlessFailed(rq, user_id, question_id, is_correct, at, failed) ==
    IF is_correct \/ failed # {} THEN [queue |-> rq, result |-> FALSE]
    ELSE AddToReviewQueue(rq, user_id, question_id, "auto", at)

\* auto_queued = await auto_queue_weak_concept(...) after a miss, False
\* when the call raises
AutoQueue(rq, user_id, question_id, is_correct, at, failed) ==
    IF is_correct \/ "queue" \in failed THEN [queue |-> rq, result |-> FALSE]
    ELSE AddToReviewQueue(rq, user_id, question_id, "auto", at)

ExamQuestions ==
    <<[domain_id |-> 1, correct_index |-> 0, difficulty_estimate |-> ELO_DEFAULT_SKILL],
      [domain_id |-> 2, correct_index |-> 0, difficulty_estimate |-> ELO_DEFAULT_SKILL]>>

ExamInit ==
    /\ users = [u \in Users |-> [global_skill |-> ELO_DEFAULT_SKILL]]
    /\ questions = ExamQuestions
    /\ simulation_sessions = <<>>
    /\ ret = NoRequest
    /\ user_streaks = [u \in Users |-> [current_streak |-> 0, longest_streak |-> 0,
                                        last_active_date |-> Null]]
    /\ question_stats = [i \in 1..Len(ExamQuestions) |->
                            [times_answered |-> 0, times_correct |-> 0]]
    /\ user_domain_skills = <<>>
    /\ user_responses = <<>>
    /\ daily_activity = <<>>
    /\ exam_sessions = <<>>
    /\ RunTwoIdle /\ ReviewIdle /\ QuotaIdle /\ ScoreIdle /\ TallyIdle /\ EnqueueIdle /\ SelectIdle /\ PassIdle /\ RatingIdle /\ RaceIdle /\ GenIdle /\ LoopIdle

\* POST /exam/session/start
StartExamSession ==
    /\ Len(exam_sessions) < MaxExamSessions
    /\ \E u \in ExamUsers :
          /\ exam_sessions' = Append(exam_sessions,
                                     [user_id |-> u, skill_before |-> users[u].global_skill,
                                      total_questions |-> 0, correct_answers |-> 0,
                                      skill_after |-> Null])
          /\ ret' = [op |-> "start_session",
                     response |-> [status |-> 200, session_id |-> Len(exam_sessions) + 1]]
    /\ UNCHANGED <<users, questions, simulation_sessions, user_streaks, question_stats,
                   user_domain_skills, user_responses, daily_activity, runTwoVars,
                   reviewVars, quotaVars, scoreVars, tallyVars, enqueueVars, selectVars,
                   passVars, ratingVars, raceVars, genVars, loopVars>>

\* POST /exam/submit-answer for a question the bank does not hold
SubmitUnknown(u, question_id, selected_index, session_id, time_spent) ==
    /\ question_id \notin 1..Len(questions)
    /\ \E status \in {404, 500} :
          ret' = [op |-> "submit_answer", user_id |-> u, question_id |-> question_id,
                  selected_index |-> selected_index, session_id |-> session_id,
                  time_spent_seconds |-> time_spent, failed |-> {},
                  response |-> [status |-> status]]
    /\ UNCHANGED <<users, questions, simulation_sessions, examVars, runTwoVars,
                   reviewVars, quotaVars, scoreVars, tallyVars, enqueueVars, selectVars,
                   passVars, ratingVars, raceVars, genVars, loopVars>>

\* POST /exam/submit-answer for a question of the bank
SubmitKnown(u, question_id, selected_index, session_id, time_spent, failed) ==
    /\ question_id \in 1..Len(questions)
    /\ LET q == questions[question_id]
           is_correct == selected_index = q.correct_index
           rated == UpdateRatings(users[u].global_skill, q.difficulty_estimate, is_correct)
           ds == DomainSkillAfter(user_domain_skills, u, q.domain_id,
                                  q.difficulty_estimate, is_correct)
           queued == AutoQueue(review_queue, u, question_id, is_correct, now, failed)
       IN /\ user_domain_skills' =
                [k \in DOMAIN user_domain_skills \cup {<<u, q.domain_id>>} |->
                    IF k = <<u, q.domain_id>> THEN ds ELSE user_domain_skills[k]]
          /\ users' = [users EXCEPT ![u].global_skill = rated.user_skill]
          /\ questions' = [questions EXCEPT
                              ![question_id].difficulty_estimate = rated.question_difficulty]
          /\ question_stats' = [question_stats EXCEPT ![question_id] =
                                   [times_answered |-> @.times_answered + 1,
                                    times_correct |-> @.times_correct
                                                      + (IF is_correct THEN 1 ELSE 0)]]
          /\ user_responses' = Append(user_responses,
                                      [user_id |-> u, question_id |-> question_id,
                                       session_id |-> session_id,
                                       selected_index |-> selected_index,
                                       is_correct |-> is_correct,
                                       time_spent_seconds |-> time_spent,
                                       skill_before |-> users[u].global_skill,
                                       skill_after |-> rated.user_skill])
          /\ exam_sessions' = SessionsAfter(exam_sessions, session_id, is_correct,
                                            rated.user_skill)
          /\ daily_activity' = DailyAfter(daily_activity, u, Today(now), is_correct,
                                          time_spent, failed)
          /\ user_streaks' = [user_streaks EXCEPT ![u] = StreakAfter(@, Today(now), failed)]
          /\ review_queue' = queued.queue
          /\ ret' = [op |-> "submit_answer", user_id |-> u, question_id |-> question_id,
                     selected_index |-> selected_index, session_id |-> session_id,
                     time_spent_seconds |-> time_spent, failed |-> failed,
                     response |-> [status |-> 200, is_correct |-> is_correct,
                                   correct_index |-> q.correct_index,
                                   skill_before |-> users[u].global_skill,
                                   skill_after |-> rated.user_skill,
                                   domain_skill_after |-> ds.skill_rating,
                                   auto_queued_for_review |-> queued.result]]
    /\ UNCHANGED <<now, simulation_sessions, runTwoVars, quotaVars, scoreVars, tallyVars,
                   enqueueVars, selectVars, passVars, ratingVars, raceVars, genVars, loopVars>>

SubmitExamAnswer ==
    /\ Len(user_responses) < MaxResponses
    /\ \E u \in ExamUsers, question_id \in 1..(Len(questions) + 1),
          selected_index \in OptionIndexes,
          session_id \in {Null} \cup {Some(i) : i \in 1..Len(exam_sessions)},
          time_spent \in TimesSpent :
          \/ SubmitUnknown(u, question_id, selected_index, session_id, time_spent)
          \/ \E failed \in SUBSET Faults :
                SubmitKnown(u, question_id, selected_index, session_id, time_spent, failed)

NextExam == StartExamSession \/ SubmitExamAnswer \/ Tick

SpecExam == ExamInit /\ [][NextExam]_vars

\* C15: when the daily-activity write, the streak write or the auto-queue
\* call fails while an answer is submitted, the response is still a
\* success and the rating updates, the item counters and the
\* user_responses row written before stay in the store; a failure of the
\* daily-activity or streak step does not keep the auto-queue step from
\* running after a miss.
C15_FailOpen ==
    [][(/\ ret'.op = "submit_answer"
        /\ ret'.question_id \in 1..Len(questions)
        /\ ret'.failed # {})
       => LET u == ret'.user_id
              q == ret'.question_id
              d == questions[q].domain_id
              missed == ret'.selected_index # questions[q].correct_index
          IN /\ ret'.response.status = 200
             /\ users'[u].global_skill = ret'.response.skill_after
             /\ users'[u].global_skill - users[u].global_skill
                   = questions[q].difficulty_estimate - questions'[q].difficulty_estimate
             /\ (missed => users'[u].global_skill < users[u].global_skill)
             /\ (~missed => users'[u].global_skill > users[u].global_skill)
             /\ <<u, d>> \in DOMAIN user_domain_skills'
             /\ user_domain_skills'[<<u, d>>].skill_rating = ret'.response.domain_skill_after
             /\ user_domain_skills'[<<u, d>>].questions_answered =
                   (IF <<u, d>> \in DOMAIN user_domain_skills
                    THEN user_domain_skills[<<u, d>>].questions_answered ELSE 0) + 1
             /\ question_stats'[q].times_answered = question_stats[q].times_answered + 1
             /\ question_stats'[q].times_correct =
                   question_stats[q].times_correct + (IF missed THEN 0 ELSE 1)
             /\ Len(user_responses') = Len(user_responses) + 1
             /\ user_responses'[Len(user_responses')].user_id = u
             /\ user_responses'[Len(user_responses')].question_id = q
             /\ user_responses'[Len(user_responses')].selected_index = ret'.selected_index
             /\ user_responses'[Len(user_responses')].is_correct = ~missed
             /\ (missed /\ "queue" \notin ret'.failed)
                   => /\ <<u, q>> \in DOMAIN review_queue'
                      /\ ret'.response.auto_queued_for_review
                            = (<<u, q>> \notin DOMAIN review_queue)]_vars

\* a miss submitted while the daily-activity write failed: recorded,
\* answered with success and queued for review
C15_Witness ==
    /\ ret.op = "submit_answer"
    /\ ret.failed = {"daily"}
    /\ ret.response.status = 200
    /\ ret.response.auto_queued_for_review
    /\ Len(user_responses) = MaxResponses
    /\ <<ret.user_id, Today(now)>> \notin DOMAIN daily_activity

\* C30: the rating stored when a learner's row of user_domain_skills is
\* first created is strictly below the global default.
C30_FirstRatingBelowDefault ==
    [][\A k \in DOMAIN user_domain_skills' \ DOMAIN user_domain_skills :
          user_domain_skills'[k].skill_rating < ELO_DEFAULT_SKILL]_vars

\* the rating points an answer moves a rating of skill against a question
\* of the given difficulty
RatingChange(skill, difficulty, is_correct) ==
    (IF is_correct THEN ELO_K_FACTOR ELSE 0) - KExpected(skill, difficulty)

C33_RepeatWitness ==
    /\ ret.op = "submit_answer"
    /\ ret.response.status = 200
    /\ Len(user_responses) = 2
    /\ user_responses[1].question_id = user_responses[2].question_id
    /\ user_responses[1].is_correct
    /\ user_responses[2].is_correct

\* the questions_answered of the learner's rows of user_domain_skills, summed
RECURSIVE AnsweredOver(_, _)
AnsweredOver(uds, keys) ==
    IF keys = {} THEN 0
    ELSE LET k == CHOOSE x \in keys : TRUE
         IN  uds[k].questions_answered + AnsweredOver(uds, keys \ {k})

\* total_questions of get_user_progress
TotalAnswered(u) ==
    AnsweredOver(user_domain_skills, {k \in DOMAIN user_domain_skills : k[1] = u})

\* C40: for every learner the questions_answered of the learner's rows of
\* user_domain_skills add up to the number of the learner's rows of
\* user_responses, and in every row questions_correct is at most
\* questions_answered.
C40_DomainCountsMatchResponses ==
    /\ \A u \in Users :
          TotalAnswered(u)
             = Cardinality({i \in 1..Len(user_responses) : user_responses[i].user_id = u})
    /\ \A k \in DOMAIN user_domain_skills :
          /\ user_domain_skills[k].questions_correct >= 0
          /\ user_domain_skills[k].questions_correct
                <= user_domain_skills[k].questions_answered

\* a learner with a correct answer in one domain and a miss in the other
C40_Witness ==
    /\ Len(user_responses) = 2
    /\ user_responses[1].user_id = user_responses[2].user_id
    /\ user_responses[1].is_correct
    /\ ~user_responses[2].is_correct
    /\ questions[user_responses[1].question_id].domain_id
          # questions[user_responses[2].question_id].domain_id
    /\ TotalAnswered(user_responses[1].user_id) = 2

(***************************************************************************)
(* select_next_question (POST /exam/generate-question) applied once to a   *)
(* store drawn from the stores submit_answer leaves behind: a learner has  *)
(* a user_domain_skills row of a domain exactly when they have answered a  *)
(* question of it.  The select of the cached questions has no order by;   *)
(* the store returns its rows in the order of the bank.                    *)
(***************************************************************************)
ELO_DIFFICULTY_RANGE == 50
QueryLimit == 10
MaxTail == 2
SelectDomainIds == {1, 2}
SkillRatings == {850, 900, 1000, 1100}
Difficulties == {960, 1000, 1040, 1100}
PaddingCounts == {0, QueryLimit - 1, QueryLimit}
GenOutcomes == {Null, Some(0)}

Abs(x) == IF x < 0 THEN 0 - x ELSE x

\* skill = user_skills[domain_id]["skill_rating"], or ELO_DEFAULT_SKILL - 100
EffectiveSkill(uds, user_id, domain_id) ==
    IF <<user_id, domain_id>> \in DOMAIN uds
    THEN uds[<<user_id, domain_id>>].skill_rating
    ELSE ELO_DEFAULT_SKILL - 100

\* a variant that takes the last of the domains of lowest skill
RECURSIVE WeakestLastFrom(_, _, _, _, _)
WeakestLastFrom(domains, uds, user_id, i, weakest) ==
    IF i > Len(domains) THEN weakest
    ELSE WeakestLastFrom(domains, uds, user_id, i + 1,
            IF \/ weakest = Null
               \/ EffectiveSkill(uds, user_id, domains[i])
                     <= EffectiveSkill(uds, user_id, weakest[1])
            THEN Some(domains[i]) ELSE weakest)

\* the loop over domains: weakest is Null while weakest_skill is infinite
RECURSIVE WeakestFrom(_, _, _, _, _)
WeakestFrom(domains, uds, user_id, i, weakest) ==
    IF i > Len(domains) THEN weakest
    ELSE WeakestFrom(domains, uds, user_id, i + 1,
            IF \/ weakest = Null
               \/ EffectiveSkill(uds, user_id, domains[i])
                     < EffectiveSkill(uds, user_id, weakest[1])
            THEN Some(domains[i]) ELSE weakest)

\* a variant that centres the window on the skill the domain was ranked by
UserDomainSkillAsRanked(uds, user_id, domain_id) ==
    EffectiveSkill(uds, user_id, domain_id)

\* user_domain_skill: the rating, or ELO_DEFAULT_SKILL
UserDomainSkill(uds, user_id, domain_id) ==
    IF <<user_id, domain_id>> \in DOMAIN uds
    THEN uds[<<user_id, domain_id>>].skill_rating
    ELSE ELO_DEFAULT_SKILL

\* answered_ids
AnsweredIds(responses, user_id) ==
    {responses[i].question_id :
        i \in {j \in 1..Len(responses) : responses[j].user_id = user_id}}

\* the ids of the questions of domain d with low <= difficulty <= high
RECURSIVE InWindowFrom(_, _, _, _, _)
InWindowFrom(qs, d, low, high, i) ==
    IF i > Len(qs) THEN <<>>
    ELSE (IF /\ qs[i].domain_id = d
             /\ qs[i].difficulty_estimate >= low
             /\ qs[i].difficulty_estimate <= high
          THEN <<i>> ELSE <<>>) \o InWindowFrom(qs, d, low, high, i + 1)

\* query.data: the first QueryLimit rows of the window
QueryData(qs, d, skill) ==
    Take(InWindowFrom(qs, d, skill - ELO_DIFFICULTY_RANGE, skill + ELO_DIFFICULTY_RANGE, 1),
         QueryLimit)

\* a variant that filters nothing out of the rows of the query
AvailableUnfiltered(data, answered, i) == data

\* available = [q for q in query.data if q["id"] not in answered_ids]
RECURSIVE AvailableFrom(_, _, _)
AvailableFrom(data, answered, i) ==
    IF i > Len(data) THEN <<>>
    ELSE (IF data[i] \in answered THEN <<>> ELSE <<data[i]>>)
            \o AvailableFrom(data, answered, i + 1)

\* min(available, key=|difficulty_estimate - user_domain_skill|): the first
\* of the questions at the least distance
Best(qs, available, skill) ==
    available[CHOOSE i \in 1..Len(available) :
        /\ \A j \in 1..Len(available) :
              Abs(qs[available[j]].difficulty_estimate - skill)
                >= Abs(qs[available[i]].difficulty_estimate - skill)
        /\ \A j \in 1..(i - 1) :
              Abs(qs[available[j]].difficulty_estimate - skill)
                > Abs(qs[available[i]].difficulty_estimate - skill)]

\* a variant that calls the generator a second time when it fails
GeneratedWithRetry(qs, domain_id, skill, generated) ==
    IF generated = Null
    THEN [result |-> Null, questions |-> qs, calls |-> 2, asked |-> Some(skill)]
    ELSE [result |-> Some([question_id |-> Len(qs) + 1, domain |-> domain_id,
                           difficulty |-> skill, from_cache |-> FALSE]),
          questions |-> Append(qs, [domain_id |-> domain_id,
                                    correct_index |-> generated[1],
                                    difficulty_estimate |-> skill]),
          calls |-> 1, asked |-> Some(skill)]

\* step 6: one call of generate_question; None when it fails, else the
\* question is inserted at the learner's level
Generated(qs, domain_id, skill, generated) ==
    IF generated = Null
    THEN [result |-> Null, questions |-> qs, calls |-> 1, asked |-> Some(skill)]
    ELSE [result |-> Some([question_id |-> Len(qs) + 1, domain |-> domain_id,
                           difficulty |-> skill, from_cache |-> FALSE]),
          questions |-> Append(qs, [domain_id |-> domain_id,
                                    correct_index |-> generated[1],
                                    difficulty_estimate |-> skill]),
          calls |-> 1, asked |-> Some(skill)]

\* select_next_question; generated is what generate_question returns if
\* it is called, asked the difficulty it is called with
SelectNextQuestion(domains, uds, responses, qs, user_id, generated) ==
    IF domains = <<>> THEN [result |-> Null, questions |-> qs, calls |-> 0, asked |-> Null]
    ELSE LET domain_id == WeakestFrom(domains, uds, user_id, 1, Null)[1]
             skill == UserDomainSkill(uds, user_id, domain_id)
             available == AvailableFrom(QueryData(qs, domain_id, skill),
                                        AnsweredIds(responses, user_id), 1)
         IN  IF available # <<>>
             THEN [result |-> Some([question_id |-> Best(qs, available, skill),
                                    domain |-> domain_id,
                                    difficulty |->
                                       qs[Best(qs, available, skill)].difficulty_estimate,
                                    from_cache |-> TRUE]),
                   questions |-> qs, calls |-> 0, asked |-> Null]
             ELSE Generated(qs, domain_id, skill, generated)

\* the stores drawn: padding answered questions of domain 1 at difficulty
\* 1000, then the questions of tail
TailItems ==
    [domain_id : SelectDomainIds, difficulty_estimate : Difficulties, answered : BOOLEAN]

DomainOrders == {<<>>, <<1>>, <<1, 2>>, <<2, 1>>}

BankOf(padding, tail) ==
    [i \in 1..(padding + Len(tail)) |->
        IF i <= padding
        THEN [domain_id |-> 1, correct_index |-> 0, difficulty_estimate |-> 1000]
        ELSE [domain_id |-> tail[i - padding].domain_id, correct_index |-> 0,
              difficulty_estimate |-> tail[i - padding].difficulty_estimate]]

RECURSIVE TailResponsesFrom(_, _, _, _)
TailResponsesFrom(user_id, padding, tail, i) ==
    IF i > Len(tail) THEN <<>>
    ELSE (IF tail[i].answered
          THEN <<[user_id |-> user_id, question_id |-> padding + i]>> ELSE <<>>)
            \o TailResponsesFrom(user_id, padding, tail, i + 1)

ResponsesOf(user_id, padding, tail) ==
    [i \in 1..padding |-> [user_id |-> user_id, question_id |-> i]]
        \o TailResponsesFrom(user_id, padding, tail, 1)

\* the domains the responses are about
AttemptedDomains(qs, responses) ==
    {qs[responses[i].question_id].domain_id : i \in 1..Len(responses)}

SelectInit ==
    /\ cert_domains \in DomainOrders
    /\ generator_calls = 0
    /\ \E padding \in PaddingCounts, tail \in SeqsFromTo(TailItems, 0, MaxTail) :
          /\ questions = BankOf(padding, tail)
          /\ user_responses = ResponsesOf("u1", padding, tail)
    /\ \E ratings \in [AttemptedDomains(questions, user_responses) -> SkillRatings] :
          user_domain_skills =
             [k \in {<<"u1", d>> : d \in AttemptedDomains(questions, user_responses)} |->
                 [skill_rating |-> ratings[k[2]],
                  questions_answered |->
                     Cardinality({i \in 1..Len(user_responses) :
                        questions[user_responses[i].question_id].domain_id = k[2]}),
                  questions_correct |-> 0]]
    /\ users = [u \in Users |-> [global_skill |-> ELO_DEFAULT_SKILL]]
    /\ simulation_sessions = <<>>
    /\ ret = NoRequest
    /\ user_streaks = <<>>
    /\ question_stats = <<>>
    /\ daily_activity = <<>>
    /\ exam_sessions = <<>>
    /\ RunTwoIdle /\ ReviewIdle /\ QuotaIdle /\ ScoreIdle /\ TallyIdle /\ EnqueueIdle /\ PassIdle /\ RatingIdle /\ RaceIdle /\ GenIdle /\ LoopIdle

\* POST /exam/generate-question: 500 when select_next_question returns None
SelectNext ==
    /\ ret = NoRequest
    /\ \E u \in ExamUsers, generated \in GenOutcomes :
          \E r \in {SelectNextQuestion(cert_domains, user_domain_skills, user_responses,
                                       questions, u, generated)} :
             /\ questions' = r.questions
             /\ generator_calls' = generator_calls + r.calls
             /\ ret' = [op |-> "generate_question", user_id |-> u,
                        generated |-> generated, difficulty_asked |-> r.asked,
                        response |-> [status |-> IF r.result = Null THEN 500 ELSE 200,
                                      question |-> r.result]]
    /\ UNCHANGED <<users, simulation_sessions, cert_domains, examVars, runTwoVars,
                   reviewVars, quotaVars, scoreVars, tallyVars, enqueueVars, passVars,
                   ratingVars, raceVars, genVars, loopVars>>

NextSelect == SelectNext

SpecSelect == SelectInit /\ [][NextSelect]_vars

\* the effective skill of the learner of the request in domain d
EffectiveAt(d) ==
    IF <<ret'.user_id, d>> \in DOMAIN user_domain_skills
    THEN user_domain_skills[<<ret'.user_id, d>>].skill_rating
    ELSE 900

PositionOf(d) == CHOOSE i \in 1..Len(cert_domains) : cert_domains[i] = d

\* the step answers the request with a question
Selected == ret'.op = "generate_question" /\ ret'.response.question # Null

\* C16: the question served is of the domain of least effective skill, the
\* rating where the learner has one and 900 where not, and of the first
\* such domain in sort order; with A rated 1100 and B unattempted it is of B.
C16_WeakestDomainFirstInOrder ==
    [][Selected =>
          LET d == ret'.response.question[1].domain
          IN  /\ \E i \in 1..Len(cert_domains) : cert_domains[i] = d
              /\ \A i \in 1..Len(cert_domains) :
                     /\ EffectiveAt(cert_domains[i]) >= EffectiveAt(d)
                     /\ i < PositionOf(d) => EffectiveAt(cert_domains[i]) > EffectiveAt(d)
              /\ \A a, b \in SelectDomainIds :
                     (/\ cert_domains \in {<<a, b>>, <<b, a>>}
                      /\ a # b
                      /\ EffectiveAt(a) = 1100
                      /\ <<ret'.user_id, b>> \notin DOMAIN user_domain_skills) => d = b]_vars

\* a question of domain 1, rated 900, served while domain 2, next in sort
\* order, is unattempted
C16_Witness ==
    /\ ret.op = "generate_question"
    /\ ret.response.question # Null
    /\ cert_domains = <<1, 2>>
    /\ <<ret.user_id, 1>> \in DOMAIN user_domain_skills
    /\ user_domain_skills[<<ret.user_id, 1>>].skill_rating = 900
    /\ <<ret.user_id, 2>> \notin DOMAIN user_domain_skills
    /\ ret.response.question[1].domain = 1

\* C17: whenever the learner has not attempted some domain of the
\* certification, the question served is of an unattempted domain, however
\* low the ratings of the attempted domains.
C17_UnattemptedDomainFirst ==
    [][(/\ Selected
        /\ \E i \in 1..Len(cert_domains) :
               <<ret'.user_id, cert_domains[i]>> \notin DOMAIN user_domain_skills)
       => <<ret'.user_id, ret'.response.question[1].domain>>
             \notin DOMAIN user_domain_skills]_vars

\* the domain and the skill the request of the step is served for
TargetDomain == WeakestFrom(cert_domains, user_domain_skills, ret'.user_id, 1, Null)[1]
TargetSkill == UserDomainSkill(user_domain_skills, ret'.user_id, TargetDomain)

\* the questions of the bank that are of the target domain, within 50 of
\* the target skill and not answered by the learner
Eligible ==
    {i \in 1..Len(questions) :
        /\ questions[i].domain_id = TargetDomain
        /\ Abs(questions[i].difficulty_estimate - TargetSkill) <= 50
        /\ \A j \in 1..Len(user_responses) :
              user_responses[j].user_id = ret'.user_id
                 => user_responses[j].question_id # i}

\* C18: if the bank holds a question of the selected domain within the
\* window that the learner has not answered, a cached question is served
\* and the generator is not called, however many questions of the window
\* the learner has answered.
C18_CachedWhenEligible ==
    [][(/\ ret'.op = "generate_question"
        /\ cert_domains # <<>>
        /\ Eligible # {})
       => /\ ret'.response.question # Null
          /\ ret'.response.question[1].from_cache
          /\ generator_calls' = generator_calls
          /\ questions' = questions]_vars

\* C19: a question served from the cache is the eligible question of the
\* bank nearest to the learner's skill, the first of them in store order.
C19_NearestEligible ==
    [][(/\ Selected
        /\ ret'.response.question[1].from_cache)
       => LET q == ret'.response.question[1].question_id
          IN  /\ q \in Eligible
              /\ \A i \in Eligible :
                     /\ Abs(questions[i].difficulty_estimate - TargetSkill)
                           >= Abs(questions[q].difficulty_estimate - TargetSkill)
                     /\ i < q => Abs(questions[i].difficulty_estimate - TargetSkill)
                                   > Abs(questions[q].difficulty_estimate - TargetSkill)]_vars

\* C20: when the bank holds no eligible question and the generator fails,
\* the request fails after one call of the generator and nothing is
\* inserted into the bank.
C20_GeneratorFailureFails ==
    [][(/\ ret'.op = "generate_question"
        /\ cert_domains # <<>>
        /\ Eligible = {}
        /\ ret'.generated = Null)
       => /\ ret'.response.question = Null
          /\ ret'.response.status = 500
          /\ generator_calls' = generator_calls + 1
          /\ questions' = questions]_vars

\* a request refused after the one call of the generator failed, the bank
\* holding questions of the domain that are answered or out of the window
C20_Witness ==
    /\ ret.op = "generate_question"
    /\ ret.generated = Null
    /\ ret.response.status = 500
    /\ generator_calls = 1
    /\ Len(questions) = QueryLimit + MaxTail
    /\ cert_domains = <<1, 2>>

\* the response of the route when select_next_question returns None after
\* the generator failed
GeneratorFailure == [status |-> 500, question |-> Null]

\* C31: a request for a certification that has no domains is refused as
\* not found, with a response other than the one given when the generator
\* fails, and neither calls the generator nor changes the bank.
C31_NoDomainsIsNotFound ==
    [][(/\ ret'.op = "generate_question"
        /\ cert_domains = <<>>)
       => /\ ret'.response.status = 404
          /\ ret'.response # GeneratorFailure
          /\ ret'.difficulty_asked = Null
          /\ generator_calls' = generator_calls
          /\ questions' = questions]_vars

\* a request for a certification with no domains meets neither the
\* generator nor the bank
C31_NoDomainsCallsNothing ==
    [][(/\ ret'.op = "generate_question"
        /\ cert_domains = <<>>)
       => /\ ret'.response.question = Null
          /\ ret'.difficulty_asked = Null
          /\ generator_calls' = generator_calls
          /\ questions' = questions]_vars

\* a request refused for a certification with no domains, the generator
\* ready to succeed
C31_Witness ==
    /\ ret.op = "generate_question"
    /\ cert_domains = <<>>
    /\ ret.generated # Null
    /\ ret.response = GeneratorFailure
    /\ generator_calls = 0
    /\ questions # <<>>

\* the questions of the bank that are of the target domain and at most 50
\* away from the default skill, and those of them the learner has not
\* answered
DefaultWindow ==
    {i \in 1..Len(questions) :
        /\ questions[i].domain_id = TargetDomain
        /\ questions[i].difficulty_estimate >= 950
        /\ questions[i].difficulty_estimate <= 1050}

DefaultFresh ==
    {i \in DefaultWindow :
        \A j \in 1..Len(user_responses) :
           user_responses[j].user_id = ret'.user_id => user_responses[j].question_id # i}

\* C36: when the learner has no rating row of the domain selected, the
\* window of cached questions is [950, 1050], the generator is asked for
\* difficulty 1000 and a generated question is stored with
\* difficulty_estimate 1000; none of the three is based on 900.
C36_UnratedDomainTargetsDefault ==
    [][(/\ ret'.op = "generate_question"
        /\ cert_domains # <<>>
        /\ <<ret'.user_id, TargetDomain>> \notin DOMAIN user_domain_skills)
       => /\ (Selected /\ ret'.response.question[1].from_cache)
                => ret'.response.question[1].question_id \in DefaultFresh
          /\ Cardinality(DefaultWindow) <= QueryLimit
                => (DefaultFresh # {}
                       <=> (Selected /\ ret'.response.question[1].from_cache))
          /\ DefaultFresh = {} => ret'.difficulty_asked = Some(1000)
          /\ (Selected /\ ~ret'.response.question[1].from_cache)
                => /\ ret'.response.question[1].difficulty = 1000
                   /\ Len(questions') = Len(questions) + 1
                   /\ questions'[Len(questions')].difficulty_estimate = 1000
                   /\ questions'[Len(questions')].domain_id = TargetDomain]_vars

\* a question generated at 1000 for domain 2, unattempted and picked ahead
\* of domain 1, rated 1000, while the bank holds a question of domain 2 at
\* 1100
C36_Witness ==
    /\ ret.op = "generate_question"
    /\ ret.response.question # Null
    /\ ~ret.response.question[1].from_cache
    /\ ret.response.question[1].domain = 2
    /\ ret.difficulty_asked = Some(1000)
    /\ cert_domains = <<1, 2>>
    /\ <<ret.user_id, 2>> \notin DOMAIN user_domain_skills
    /\ <<ret.user_id, 1>> \in DOMAIN user_domain_skills
    /\ user_domain_skills[<<ret.user_id, 1>>].skill_rating = 1000
    /\ \E i \in 1..(Len(questions) - 1) :
          questions[i].domain_id = 2 /\ questions[i].difficulty_estimate = 1100
    /\ questions[Len(questions)].difficulty_estimate = 1000

\* a cached question of an unattempted domain served at 1040, which is
\* more than 50 above 900
C36_CachedWitness ==
    /\ ret.op = "generate_question"
    /\ ret.response.question # Null
    /\ ret.response.question[1].from_cache
    /\ ret.response.question[1].difficulty = 1040
    /\ <<ret.user_id, ret.response.question[1].domain>> \notin DOMAIN user_domain_skills

\* C37: the question served is not one the learner has a response to: a
\* cached question is of the bank and not among the learner's responses
\* when the request is served, a generated question is a new row of the
\* bank.
C37_NeverAnsweredItem ==
    [][Selected =>
          LET q == ret'.response.question[1]
          IN  /\ \A j \in 1..Len(user_responses) :
                    user_responses[j].user_id = ret'.user_id
                       => user_responses[j].question_id # q.question_id
              /\ user_responses' = user_responses
              /\ q.from_cache => /\ q.question_id \in 1..Len(questions)
                                 /\ questions' = questions
              /\ ~q.from_cache => /\ q.question_id = Len(questions) + 1
                                  /\ Len(questions') = Len(questions) + 1
                                  /\ \A i \in 1..Len(questions) :
                                        questions'[i] = questions[i]]_vars

\* a cached question served to a learner who has answered QueryLimit - 1
\* questions of its domain at the same difficulty
C37_Witness ==
    /\ ret.op = "generate_question"
    /\ ret.response.question # Null
    /\ ret.response.question[1].from_cache
    /\ ret.response.question[1].difficulty = 1000
    /\ Cardinality({j \in 1..Len(user_responses) :
          /\ user_responses[j].user_id = ret.user_id
          /\ questions[user_responses[j].question_id].domain_id
                = ret.response.question[1].domain
          /\ questions[user_responses[j].question_id].difficulty_estimate = 1000})
          >= QueryLimit - 1

(***************************************************************************)
(* calculate_weighted_pass_probability alone, applied once to arguments    *)
(* drawn from bounded sets.  Domains are named by their position in        *)
(* PL300_DOMAIN_WEIGHTS, weights are in thousandths, ratings are whole     *)
(* points and the estimate is in tenths of a per cent; expected_score is   *)
(* carried at the resolution of ExpectedSteps (thirty-seconds).            *)
(***************************************************************************)
MIN_QUESTIONS_FOR_PREDICTION == 20
RELIABLE_PREDICTION_THRESHOLD == 50
MediumConfidenceThreshold == 30
PredictionPassThreshold == 1100
EstimateCap == 990

\* domain_skill_map.get(domain_name, ELO_DEFAULT_SKILL): the map is filled in
\* the order of the list, so the last row of a name is the one that counts
SkillOfName(domain_skills, domain_name) ==
    LET rows == {i \in 1..Len(domain_skills) : domain_skills[i].name = domain_name}
    IN  IF rows = {} THEN ELO_DEFAULT_SKILL
        ELSE domain_skills[CHOOSE i \in rows : \A j \in rows : j <= i].skill_rating

\* weighted_skill, to the nearest whole point
WeightedSkill(domain_skills) ==
    LET names == 1..Len(PL300_DOMAIN_WEIGHTS)
        contributions == [d \in names |->
                             PL300_DOMAIN_WEIGHTS[d] * SkillOfName(domain_skills, d)]
        total_weight == SumSeq(PL300_DOMAIN_WEIGHTS)
    IN  IF total_weight > 0
        THEN (2 * SumSeq(contributions) + total_weight) \div (2 * total_weight)
        ELSE 0

\* the number of recent responses that are correct
RecentCorrect(recent_responses) ==
    Cardinality({i \in 1..Len(recent_responses) : recent_responses[i].is_correct})

\* round(min(99.0, max(0.0, adjusted_prob * 100)), 1), in tenths
Estimate(domain_skills, recent_responses) ==
    LET base == KExpected(WeightedSkill(domain_skills), PredictionPassThreshold - 200)
        n == Len(recent_responses)
        num == IF n > 0
               THEN 700 * base * n + 300 * ELO_K_FACTOR * RecentCorrect(recent_responses)
               ELSE 1000 * base
        den == IF n > 0 THEN ELO_K_FACTOR * n ELSE ELO_K_FACTOR
    IN  Min(EstimateCap, Max(0, (2 * num + den) \div (2 * den)))

\* the confidence level of an active prediction
Confidence(total_answered) ==
    IF total_answered >= RELIABLE_PREDICTION_THRESHOLD THEN "high"
    ELSE IF total_answered >= MediumConfidenceThreshold THEN "medium"
    ELSE "low"

\* the result returned before the prediction is active
InactivePrediction(total_answered) ==
    [estimate |-> 0,
     confidence |-> "low",
     is_active |-> FALSE,
     questions_remaining |-> Max(0, MIN_QUESTIONS_FOR_PREDICTION - total_answered),
     domain_contributions |-> <<>>]

\* the result returned once the prediction is active
ActivePrediction(domain_skills, total_answered, recent_responses) ==
    [estimate |-> Estimate(domain_skills, recent_responses),
     confidence |-> Confidence(total_answered),
     is_active |-> TRUE,
     questions_remaining |-> 0,
     domain_contributions |-> [d \in 1..Len(PL300_DOMAIN_WEIGHTS) |->
                                  SkillOfName(domain_skills, d)]]

\* a variant that is still inactive at MIN_QUESTIONS_FOR_PREDICTION answers
CalculateWeightedPassProbabilityLate(domain_skills, total_answered, recent_responses) ==
    IF total_answered <= MIN_QUESTIONS_FOR_PREDICTION
    THEN InactivePrediction(total_answered)
    ELSE ActivePrediction(domain_skills, total_answered, recent_responses)

\* calculate_weighted_pass_probability
CalculateWeightedPassProbability(domain_skills, total_answered, recent_responses) ==
    IF total_answered < MIN_QUESTIONS_FOR_PREDICTION
    THEN InactivePrediction(total_answered)
    ELSE ActivePrediction(domain_skills, total_answered, recent_responses)

\* the arguments drawn: the learner's rows of user_domain_skills (none, or a
\* rating below or above the default, per domain), the sum of their
\* questions_answered, and the learner's latest responses
PassSkillRatings == {900, 1100}
TotalsAnswered == {0, 1, 19, 20, 21, 29, 30, 49, 50}
RecentLists ==
    {<<>>, <<[is_correct |-> TRUE]>>, <<[is_correct |-> FALSE]>>,
     <<[is_correct |-> TRUE], [is_correct |-> FALSE]>>}
PresentRow(r) == r.skill_rating # 0
SkillListOf(f) ==
    SelectSeq([d \in 1..Len(PL300_DOMAIN_WEIGHTS) |-> [name |-> d, skill_rating |-> f[d]]],
              PresentRow)
SkillLists ==
    {SkillListOf(f) : f \in [1..Len(PL300_DOMAIN_WEIGHTS) -> PassSkillRatings \cup {0}]}

PassInit ==
    /\ \E ds \in SkillLists, t \in TotalsAnswered, rr \in RecentLists :
          pass_in = [domain_skills |-> ds, total_questions |-> t,
                     recent_responses |-> rr]
    /\ pass_out = Null
    /\ SimIdle /\ RunTwoIdle /\ ReviewIdle /\ QuotaIdle /\ ScoreIdle /\ TallyIdle /\ RaceIdle /\ GenIdle /\ LoopIdle
    /\ EnqueueIdle /\ ExamIdle /\ SelectIdle /\ RatingIdle

PredictPass ==
    /\ pass_out = Null
    /\ \E r \in {CalculateWeightedPassProbability(pass_in.domain_skills,
                     pass_in.total_questions, pass_in.recent_responses)} :
          pass_out' = Some(r)
    /\ UNCHANGED <<pass_in, simVars, runTwoVars, reviewVars, quotaVars, scoreVars,
                   tallyVars, enqueueVars, examVars, selectVars, ratingVars, raceVars, genVars,
                   loopVars>>

NextPass == PredictPass

SpecPass == PassInit /\ [][NextPass]_vars

\* C21: the prediction is active exactly from MIN_QUESTIONS_FOR_PREDICTION
\* answers on.  Below it the result is estimate 0, confidence "low", not
\* active and as many questions remaining as are missing, whatever the
\* domain skills and the recent responses; from it on the result is active
\* with no question remaining.
C21_ActiveFromTwenty ==
    pass_out # Null =>
        LET t == pass_in.total_questions
            r == pass_out[1]
        IN  /\ t < MIN_QUESTIONS_FOR_PREDICTION =>
                 /\ r.estimate = 0
                 /\ r.confidence = "low"
                 /\ ~r.is_active
                 /\ r.questions_remaining = MIN_QUESTIONS_FOR_PREDICTION - t
            /\ t >= MIN_QUESTIONS_FOR_PREDICTION =>
                 /\ r.is_active
                 /\ r.questions_remaining = 0

\* a learner one answer short, rated above the default in every domain and
\* right in the latest response, is told that one question remains
C21_Witness ==
    /\ pass_out # Null
    /\ pass_in.total_questions = MIN_QUESTIONS_FOR_PREDICTION - 1
    /\ \A d \in 1..Len(PL300_DOMAIN_WEIGHTS) :
          SkillOfName(pass_in.domain_skills, d) > ELO_DEFAULT_SKILL
    /\ pass_in.recent_responses = <<[is_correct |-> TRUE]>>
    /\ ~pass_out[1].is_active
    /\ pass_out[1].questions_remaining = 1

(***************************************************************************)
(* update_ratings alone, in binary64, applied once to ratings drawn from   *)
(* whole numbers of points.  10.0 ** x is the one operation the float      *)
(* library above does not compute: its values are tabled, by the           *)
(* difference question_difficulty - user_skill, as the doubles nearest to  *)
(* 10 ^ (difference / 400.0), which is what the C library's pow returns    *)
(* for these arguments.                                                    *)
(***************************************************************************)
TenToThe ==
    -82 :> [m |-> <<24045, 16888, 27461, 79>>, e |-> -52] @@
    -66 :> [m |-> <<21995, 11725, 17717, 87>>, e |-> -52] @@
    -50 :> [m |-> <<11981, 9233, 32324, 95>>, e |-> -52] @@
    -34 :> [m |-> <<17661, 8889, 16191, 210>>, e |-> -53] @@
    -32 :> [m |-> <<18039, 7352, 30524, 212>>, e |-> -53] @@
    -18 :> [m |-> <<8075, 28098, 26286, 230>>, e |-> -53] @@
    -16 :> [m |-> <<12881, 13864, 15557, 233>>, e |-> -53] @@
    -2 :> [m |-> <<10265, 13050, 2280, 253>>, e |-> -53] @@
    0 :> [m |-> <<1>>, e |-> 0] @@
    16 :> [m |-> <<12873, 14483, 5721, 70>>, e |-> -51] @@
    18 :> [m |-> <<12957, 1492, 24471, 17>>, e |-> -49] @@
    32 :> [m |-> <<13861, 17274, 29158, 153>>, e |-> -52] @@
    34 :> [m |-> <<4389, 26452, 22013, 155>>, e |-> -52] @@
    48 :> [m |-> <<27243, 17931, 8946, 5>>, e |-> -47] @@
    50 :> [m |-> <<8273, 18653, 22042, 42>>, e |-> -50] @@
    64 :> [m |-> <<2095, 29691, 16650, 92>>, e |-> -51] @@
    66 :> [m |-> <<32025, 18727, 5199, 187>>, e |-> -52] @@
    68 :> [m |-> <<24497, 3750, 21723, 94>>, e |-> -51] @@
    82 :> [m |-> <<15613, 19000, 13532, 6>>, e |-> -47] @@
    84 :> [m |-> <<10937, 18959, 19388, 207>>, e |-> -52] @@
    98 :> [m |-> <<18013, 16758, 8308, 56>>, e |-> -50] @@
    100 :> [m |-> <<9095, 7252, 26538, 113>>, e |-> -51] @@
    116 :> [m |-> <<29105, 16451, 25888, 124>>, e |-> -51] @@
    132 :> [m |-> <<32745, 24115, 13591, 68>>, e |-> -50] @@
    148 :> [m |-> <<3903, 2433, 502, 75>>, e |-> -50]

RatingSkills == {952, 968, 984, 1000, 1016, 1032}
RatingDifficulties == {950, 1000, 1016, 1050, 1100}

\* expected_score: 1.0 / (1.0 + 10.0 ** ((question_difficulty - user_skill) / 400.0))
ExpectedScore(user_skill, question_difficulty) ==
    FDiv(FromInt(1), FAdd(FromInt(1), TenToThe[question_difficulty - user_skill]))

\* rating + ELO_K_FACTOR * (a - b) for the floats a and b, either of which
\* may be the greater
Shifted(rating, a, b) ==
    IF FCmp(a, b) >= 0
    THEN FAdd(rating, FMul(FromInt(ELO_K_FACTOR), FSub(a, b)))
    ELSE FSub(rating, FMul(FromInt(ELO_K_FACTOR), FSub(b, a)))

\* update_ratings, in floats
UpdateRatingsFloat(user_skill, question_difficulty, is_correct) ==
    LET expected == ExpectedScore(user_skill, question_difficulty)
        actual == IF is_correct THEN FromInt(1) ELSE FZero
    IN  [user_skill |-> Shifted(FromInt(user_skill), actual, expected),
         question_difficulty |-> Shifted(FromInt(question_difficulty), expected, actual)]

RatingInit ==
    /\ \E s \in RatingSkills, d \in RatingDifficulties, c \in BOOLEAN :
          rating_in = [user_skill |-> s, question_difficulty |-> d, is_correct |-> c]
    /\ rating_out = Null
    /\ SimIdle /\ RunTwoIdle /\ ReviewIdle /\ QuotaIdle /\ ScoreIdle /\ TallyIdle /\ RaceIdle /\ GenIdle /\ LoopIdle
    /\ EnqueueIdle /\ ExamIdle /\ SelectIdle /\ PassIdle

Rate ==
    /\ rating_out = Null
    /\ \E r \in {UpdateRatingsFloat(rating_in.user_skill, rating_in.question_difficulty,
                                    rating_in.is_correct)} :
          rating_out' = Some(r)
    /\ UNCHANGED <<rating_in, simVars, runTwoVars, reviewVars, quotaVars, scoreVars,
                   tallyVars, enqueueVars, examVars, selectVars, passVars, raceVars, genVars,
                   loopVars>>

NextRating == Rate

SpecRating == RatingInit /\ [][NextRating]_vars

\* to - from as a sign and a magnitude
Moved(from, to) ==
    IF FCmp(to, from) >= 0 THEN [up |-> TRUE, by |-> FSub(to, from)]
    ELSE [up |-> FALSE, by |-> FSub(from, to)]

SkillMoved == Moved(FromInt(rating_in.user_skill), rating_out[1].user_skill)
DifficultyMoved ==
    Moved(FromInt(rating_in.question_difficulty), rating_out[1].question_difficulty)

\* C22: the update is zero-sum, newSkill - skill = -(newDifficulty -
\* difficulty), for every skill, difficulty and outcome
C22_ZeroSum ==
    rating_out # Null => SkillMoved.by = DifficultyMoved.by

\* C22, direction: a correct answer never lowers the skill nor raises the
\* difficulty, an incorrect one never raises the skill nor lowers the
\* difficulty
C22_Direction ==
    rating_out # Null =>
        /\ SkillMoved.by # FZero => SkillMoved.up = rating_in.is_correct
        /\ DifficultyMoved.by # FZero => DifficultyMoved.up = ~rating_in.is_correct

\* C22: the update is zero-sum and moves the skill with the outcome and
\* the difficulty against it, both statements above together
C22_ZeroSumAndDirection == C22_ZeroSum /\ C22_Direction

(***************************************************************************)
(* submit_sim_answer call by call.  The function makes two calls to the    *)
(* store, a select of the session's answers map and an update that writes  *)
(* the whole map back; the store has no per-row locking, so handlers       *)
(* serving different requests take turns at the store between the two.     *)
(***************************************************************************)
RaceSessionIds == {1, 2}
RacePositions == {0, 1}
CallIdle == [pc |-> "idle"]

\* the select: the answers map of the session, None when there is no row
ReadAnswers(ss, session_id) ==
    IF session_id \in 1..Len(ss) THEN Some(ss[session_id].answers) ELSE Null

\* a variant of the update that adds the entry to the map stored at the time
WriteAnswersMerged(ss, session_id, answers, question_index) ==
    LET merged == Put(ss[session_id].answers, question_index, answers[question_index])
    IN  [ss EXCEPT ![session_id].answers = merged,
                   ![session_id].questions_answered = Cardinality(DOMAIN merged)]

\* the update: the map the call built and its length replace the stored ones
WriteAnswers(ss, session_id, answers, question_index) ==
    [ss EXCEPT ![session_id].answers = answers,
               ![session_id].questions_answered = Cardinality(DOMAIN answers)]

\* one session of two questions, stored by create_simulation, not yet answered
SimRaceInit ==
    /\ users = [u \in Users |-> [global_skill |-> ELO_DEFAULT_SKILL]]
    /\ questions = <<>>
    /\ simulation_sessions = <<NewSession("u1", <<1, 2>>)>>
    /\ ret = NoRequest
    /\ in_flight = [h \in Handlers |-> CallIdle]
    /\ RunTwoIdle /\ ReviewIdle /\ QuotaIdle /\ ScoreIdle /\ TallyIdle /\ EnqueueIdle /\ GenIdle /\ LoopIdle
    /\ ExamIdle /\ SelectIdle /\ PassIdle /\ RatingIdle

\* a call starts and selects the session: it returns False when there is no
\* row, and builds its map from the answers read otherwise
SubmitSelect(h) ==
    /\ in_flight[h].pc = "idle"
    /\ \E session_id \in RaceSessionIds, question_index \in RacePositions,
          selected_index \in OptionIndexes :
          LET session == ReadAnswers(simulation_sessions, session_id)
              call == [session_id |-> session_id, question_index |-> question_index,
                       selected_index |-> selected_index]
          IN  in_flight' = [in_flight EXCEPT ![h] =
                IF session = Null
                THEN [pc |-> "returned", call |-> call, result |-> FALSE]
                ELSE [pc |-> "update", call |-> call,
                      answers |-> Put(session[1], question_index,
                                      [question_id |-> question_index + 1,
                                       selected_index |-> selected_index,
                                       time_spent_seconds |-> Null])]]
    /\ UNCHANGED <<simVars, runTwoVars, reviewVars, quotaVars, scoreVars, tallyVars,
                   enqueueVars, examVars, selectVars, passVars, ratingVars, genVars, loopVars>>

\* the call writes its map back and returns True
SubmitUpdate(h) ==
    /\ in_flight[h].pc = "update"
    /\ simulation_sessions' = WriteAnswers(simulation_sessions, in_flight[h].call.session_id,
                                           in_flight[h].answers,
                                           in_flight[h].call.question_index)
    /\ in_flight' = [in_flight EXCEPT ![h] =
                       [pc |-> "returned", call |-> in_flight[h].call, result |-> TRUE]]
    /\ UNCHANGED <<users, questions, ret, runTwoVars, reviewVars, quotaVars, scoreVars,
                   tallyVars, enqueueVars, examVars, selectVars, passVars, ratingVars, genVars,
                   loopVars>>

NextSimRace == \E h \in Handlers : SubmitSelect(h) \/ SubmitUpdate(h)

SpecSimRace == SimRaceInit /\ [][NextSimRace]_vars

\* the entry the call of handler h submitted is the one stored at its position
Kept(h) ==
    LET call == in_flight[h].call
        answers == simulation_sessions[call.session_id].answers
    IN  /\ call.question_index \in DOMAIN answers
        /\ answers[call.question_index].selected_index = call.selected_index

\* C23: the update of a call replaces the stored answers map by the map the
\* call read at its select plus its own entry, whatever has been stored in
\* between; two calls for different positions of a session that both select
\* before either updates therefore both return success and leave a map that
\* holds one of the two answers.
C23_UpdateWritesMapRead ==
    [][\A h \in Handlers :
          in_flight[h].pc = "update" /\ in_flight'[h].pc = "returned" =>
              /\ in_flight'[h].result
              /\ simulation_sessions'[in_flight[h].call.session_id].answers
                   = in_flight[h].answers]_vars

\* both calls returned success for different positions of the session and
\* the stored map holds one answer
C23_Witness ==
    /\ \A h \in Handlers : in_flight[h].pc = "returned" /\ in_flight[h].result
    /\ in_flight[1].call.question_index # in_flight[2].call.question_index
    /\ in_flight[1].call.session_id = in_flight[2].call.session_id
    /\ Cardinality(DOMAIN simulation_sessions[1].answers) = 1
    /\ simulation_sessions[1].questions_answered = 1
    /\ Kept(2) /\ ~(in_flight[1].call.question_index \in DOMAIN simulation_sessions[1].answers)

(***************************************************************************)
(* submit_answer (POST /exam/submit-answer) call by call, for two learners *)
(* served by different handlers.  The handler fetches the question row     *)
(* first and writes the question's difficulty_estimate, times_answered and *)
(* times_correct later from the row it fetched; the store calls in between *)
(* and after it touch rows of the learner alone and are taken together     *)
(* with that write.  No store call fails here.                             *)
(***************************************************************************)
LearnerOf == [h \in Handlers |-> IF h = 1 THEN "u1" ELSE "u2"]

AnswerRaceInit ==
    /\ users = [u \in Users |-> [global_skill |-> ELO_DEFAULT_SKILL]]
    /\ questions = ExamQuestions
    /\ simulation_sessions = <<>>
    /\ ret = NoRequest
    /\ user_streaks = [u \in Users |-> [current_streak |-> 0, longest_streak |-> 0,
                                        last_active_date |-> Null]]
    /\ question_stats = [i \in 1..Len(ExamQuestions) |->
                            [times_answered |-> 0, times_correct |-> 0]]
    /\ user_domain_skills = <<>>
    /\ user_responses = <<>>
    /\ daily_activity = <<>>
    /\ exam_sessions = <<>>
    /\ in_flight = [h \in Handlers |-> CallIdle]
    /\ RunTwoIdle /\ ReviewIdle /\ QuotaIdle /\ ScoreIdle /\ TallyIdle /\ EnqueueIdle /\ GenIdle /\ LoopIdle
    /\ SelectIdle /\ PassIdle /\ RatingIdle

\* the call starts and fetches the question row
AnswerFetch(h) ==
    /\ in_flight[h].pc = "idle"
    /\ \E question_id \in 1..Len(questions), selected_index \in OptionIndexes :
          in_flight' = [in_flight EXCEPT ![h] =
             [pc |-> "persist",
              call |-> [user_id |-> LearnerOf[h], question_id |-> question_id,
                        selected_index |-> selected_index],
              q |-> [domain_id |-> questions[question_id].domain_id,
                     correct_index |-> questions[question_id].correct_index,
                     difficulty_estimate |-> questions[question_id].difficulty_estimate,
                     times_answered |-> question_stats[question_id].times_answered,
                     times_correct |-> question_stats[question_id].times_correct]]]
    /\ UNCHANGED <<simVars, runTwoVars, reviewVars, quotaVars, scoreVars, tallyVars,
                   enqueueVars, examVars, selectVars, passVars, ratingVars, genVars, loopVars>>

\* the rest of the call: the ratings, the learner's rows, the question row
\* written from the row fetched, the response row, the activity, the streak
\* and the review queue
AnswerPersist(h) ==
    /\ in_flight[h].pc = "persist"
    /\ LET u == in_flight[h].call.user_id
           question_id == in_flight[h].call.question_id
           q == in_flight[h].q
           is_correct == in_flight[h].call.selected_index = q.correct_index
           rated == UpdateRatings(users[u].global_skill, q.difficulty_estimate, is_correct)
           ds == DomainSkillAfter(user_domain_skills, u, q.domain_id,
                                  q.difficulty_estimate, is_correct)
           queued == AutoQueue(review_queue, u, question_id, is_correct, now, {})
       IN /\ user_domain_skills' =
                [k \in DOMAIN user_domain_skills \cup {<<u, q.domain_id>>} |->
                    IF k = <<u, q.domain_id>> THEN ds ELSE user_domain_skills[k]]
          /\ users' = [users EXCEPT ![u].global_skill = rated.user_skill]
          /\ questions' = [questions EXCEPT
                              ![question_id].difficulty_estimate = rated.question_difficulty]
          /\ question_stats' = [question_stats EXCEPT ![question_id] =
                                   [times_answered |-> q.times_answered + 1,
                                    times_correct |-> q.times_correct
                                                      + (IF is_correct THEN 1 ELSE 0)]]
          /\ user_responses' = Append(user_responses,
                                      [user_id |-> u, question_id |-> question_id,
                                       session_id |-> Null,
                                       selected_index |-> in_flight[h].call.selected_index,
                                       is_correct |-> is_correct,
                                       time_spent_seconds |-> Null,
                                       skill_before |-> users[u].global_skill,
                                       skill_after |-> rated.user_skill])
          /\ daily_activity' = DailyAfter(daily_activity, u, Today(now), is_correct,
                                          Null, {})
          /\ user_streaks' = [user_streaks EXCEPT ![u] = StreakAfter(@, Today(now), {})]
          /\ review_queue' = queued.queue
          /\ in_flight' = [in_flight EXCEPT ![h] =
                             [pc |-> "returned", call |-> in_flight[h].call,
                              is_correct |-> is_correct]]
    /\ UNCHANGED <<now, simulation_sessions, ret, exam_sessions, runTwoVars, quotaVars,
                   scoreVars, tallyVars, enqueueVars, selectVars, passVars, ratingVars,
                   genVars, loopVars>>

NextAnswerRace == \E h \in Handlers : AnswerFetch(h) \/ AnswerPersist(h)

SpecAnswerRace == AnswerRaceInit /\ [][NextAnswerRace]_vars

\* the response rows of a question, and the correct ones among them
ResponsesTo(question_id) ==
    {i \in 1..Len(user_responses) : user_responses[i].question_id = question_id}
CorrectResponsesTo(question_id) ==
    {i \in ResponsesTo(question_id) : user_responses[i].is_correct}

\* C24: calls of submit_answer by different learners do not lose each
\* other's updates: every answer recorded for an item is counted in the
\* item's times_answered, and every correct one in its times_correct.
C24_NoLostItemUpdate ==
    \A question_id \in 1..Len(questions) :
        /\ question_stats[question_id].times_answered
             = Cardinality(ResponsesTo(question_id))
        /\ question_stats[question_id].times_correct
             = Cardinality(CorrectResponsesTo(question_id))

(***************************************************************************)
(* generate_question's validation of the generator's payload and the two   *)
(* inserts made from its result, by select_next_question and by            *)
(* create_simulation.  A string is a sequence of characters over a blank   *)
(* and a letter; a key of the payload is absent (Null) or present with its *)
(* value (Some).  The payload Null stands for a response that could not be *)
(* fetched or parsed.  scenario and explanation_wrong, which the           *)
(* validation does not read, are left out of the payload.                  *)
(***************************************************************************)
Blank == " "
OptionCount == 4

\* str.strip()
RECURSIVE StripLeft(_)
StripLeft(s) == IF s # <<>> /\ Head(s) = Blank THEN StripLeft(Tail(s)) ELSE s

RECURSIVE StripRight(_)
StripRight(s) ==
    IF s # <<>> /\ s[Len(s)] = Blank THEN StripRight(SubSeq(s, 1, Len(s) - 1)) ELSE s

Strip(s) == StripRight(StripLeft(s))

\* data.get(key, "")
GetText(field) == IF field = Null THEN <<>> ELSE field[1]

\* the explanation validated: explanation_correct, or the legacy explanation
\* when that one is missing or empty
ExplanationCorrect(data) ==
    IF GetText(data.explanation_correct) = <<>> /\ GetText(data.explanation) # <<>>
    THEN GetText(data.explanation)
    ELSE GetText(data.explanation_correct)

\* the dict _validate_question returns
ValidatedQuestion(data) ==
    [question |-> Strip(data.question[1].text),
     options |-> [i \in 1..Len(data.options[1].items) |-> Strip(data.options[1].items[i])],
     correct_index |-> data.correct_index[1],
     explanation |-> Strip(ExplanationCorrect(data)),
     explanation_correct |-> Strip(ExplanationCorrect(data)),
     concept_tag |-> Strip(GetText(data.concept_tag)),
     domain |-> Strip(data.domain[1])]

\* _validate_question: the dict, or the exception raised
ValidateQuestion(data) ==
    IF \/ \E k \in {"question", "options", "correct_index", "domain"} : data[k] = Null
       \/ ~data.options[1].is_list \/ Len(data.options[1].items) # OptionCount
       \/ data.correct_index[1] \notin 0..(OptionCount - 1)
    THEN [raised |-> "ValueError"]
    ELSE IF ~data.question[1].is_str THEN [raised |-> "AttributeError"]
    ELSE IF \/ Strip(data.question[1].text) = <<>>
            \/ \E i \in 1..OptionCount : Strip(data.options[1].items[i]) = <<>>
            \/ ExplanationCorrect(data) = <<>>
    THEN [raised |-> "ValueError"]
    ELSE [raised |-> "no", value |-> ValidatedQuestion(data)]

\* generate_question: the validated dict, None after an error it catches, or
\* the exception it lets through
GenerateQuestion(payload) ==
    IF payload = Null THEN [raised |-> "no", value |-> Null]
    ELSE LET validated == ValidateQuestion(payload[1])
         IN  IF validated.raised = "no" THEN [raised |-> "no", value |-> Some(validated.value)]
             ELSE IF validated.raised = "ValueError" THEN [raised |-> "no", value |-> Null]
             ELSE validated

\* the row select_next_question inserts
SelectorRow(generated) ==
    [question_text |-> generated.question, options |-> generated.options,
     correct_index |-> generated.correct_index, explanation |-> generated.explanation,
     concept_tag |-> Null]

\* the row create_simulation inserts
SimulationRow(gen) ==
    [question_text |-> gen.question, options |-> gen.options,
     correct_index |-> gen.correct_index,
     explanation |-> IF gen.explanation_correct # <<>> THEN gen.explanation_correct
                     ELSE gen.explanation,
     concept_tag |-> Some(gen.concept_tag)]

\* what either caller does with the outcome: a row when there is a dict
Stored(outcome, caller) ==
    [caller |-> caller, outcome |-> outcome,
     row |-> IF outcome.raised = "no" /\ outcome.value # Null
             THEN Some(IF caller = "select_next_question"
                       THEN SelectorRow(outcome.value[1])
                       ELSE SimulationRow(outcome.value[1]))
             ELSE Null]

\* the payloads drawn
Texts == {<<>>, <<Blank>>, <<"x">>, <<Blank, "x", Blank>>}
QuestionValues == {[is_str |-> TRUE, text |-> t] : t \in Texts}
                      \cup {[is_str |-> FALSE, text |-> <<>>]}
OptionLists ==
    {[is_list |-> TRUE, items |-> <<<<"x">>, <<"x">>, <<"x">>, <<Blank, "x">>>>],
     [is_list |-> TRUE, items |-> <<<<"x">>, <<>>, <<"x">>, <<"x">>>>],
     [is_list |-> TRUE, items |-> <<<<"x">>, <<"x">>, <<"x">>, <<Blank>>>>],
     [is_list |-> TRUE, items |-> <<<<"x">>, <<"x">>, <<"x">>>>],
     [is_list |-> TRUE, items |-> <<<<"x">>, <<"x">>, <<"x">>, <<"x">>, <<"x">>>>],
     [is_list |-> FALSE, items |-> <<>>]}
CorrectIndexValues == {-1, 0, OptionCount - 1, OptionCount}
Optional(S) == {Null} \cup {Some(v) : v \in S}
Payloads ==
    [question : Optional(QuestionValues), options : Optional(OptionLists),
     correct_index : Optional(CorrectIndexValues), domain : Optional({<<"x">>}),
     explanation_correct : Optional(Texts), explanation : Optional({<<>>, <<"x">>}),
     concept_tag : Optional({<<>>, <<Blank>>, <<"x">>})]

GenInit ==
    /\ gen_in \in Optional(Payloads)
    /\ gen_out = Null
    /\ SimIdle /\ RunTwoIdle /\ ReviewIdle /\ QuotaIdle /\ ScoreIdle /\ TallyIdle /\ LoopIdle
    /\ EnqueueIdle /\ ExamIdle /\ SelectIdle /\ PassIdle /\ RatingIdle /\ RaceIdle

\* select_next_question, step 6: generate and insert
GenerateForSelection ==
    /\ gen_out = Null
    /\ \E r \in {Stored(GenerateQuestion(gen_in), "select_next_question")} :
          gen_out' = Some(r)
    /\ UNCHANGED <<gen_in, simVars, runTwoVars, reviewVars, quotaVars, scoreVars, tallyVars,
                   enqueueVars, examVars, selectVars, passVars, ratingVars, raceVars, loopVars>>

\* create_simulation, one turn of the generation loop: generate and insert
GenerateForSimulation ==
    /\ gen_out = Null
    /\ \E r \in {Stored(GenerateQuestion(gen_in), "create_simulation")} :
          gen_out' = Some(r)
    /\ UNCHANGED <<gen_in, simVars, runTwoVars, reviewVars, quotaVars, scoreVars, tallyVars,
                   enqueueVars, examVars, selectVars, passVars, ratingVars, raceVars, loopVars>>

NextGen == GenerateForSelection \/ GenerateForSimulation

SpecGen == GenInit /\ [][NextGen]_vars

\* the row has exactly four non-empty options, a correct index from 0 to 3, a
\* non-empty question text and a non-empty explanation
WellFormedRow(row) ==
    /\ Len(row.options) = OptionCount
    /\ \A i \in 1..Len(row.options) : row.options[i] # <<>>
    /\ row.correct_index \in 0..(OptionCount - 1)
    /\ row.question_text # <<>>
    /\ row.explanation # <<>>

\* the payload meets the same conditions, its strings taken as the program
\* takes the question and the options, without the blanks around them
WellFormedPayload(payload) ==
    /\ payload # Null
    /\ \A k \in {"question", "options", "correct_index"} : payload[1][k] # Null
    /\ payload[1].options[1].is_list
    /\ Len(payload[1].options[1].items) = OptionCount
    /\ \A i \in 1..Len(payload[1].options[1].items) :
          Strip(payload[1].options[1].items[i]) # <<>>
    /\ payload[1].correct_index[1] \in 0..(OptionCount - 1)
    /\ payload[1].question[1].is_str
    /\ Strip(payload[1].question[1].text) # <<>>
    /\ \/ Strip(GetText(payload[1].explanation_correct)) # <<>>
       \/ Strip(GetText(payload[1].explanation)) # <<>>

\* generate_question gave no question (None, or an exception it lets
\* through) and no row was inserted
Rejected(stored) ==
    /\ stored.outcome.raised # "no" \/ stored.outcome.value = Null
    /\ stored.row = Null

\* C25: every row inserted from the generator's output has exactly four
\* non-empty options, a correct index from 0 to 3, a non-empty question text
\* and a non-empty explanation; for a payload that violates any of these
\* generate_question gives no question and no row is inserted.
C25_OnlyWellFormedInserted ==
    gen_out # Null =>
        /\ gen_out[1].row # Null => WellFormedRow(gen_out[1].row[1])
        /\ ~WellFormedPayload(gen_in) => Rejected(gen_out[1])

\* C26: a payload whose concept tag is absent or empty is rejected:
\* generate_question gives no question and no row without a concept tag is
\* inserted.
C26_ConceptTagRequired ==
    gen_out # Null /\ gen_in # Null /\ Strip(GetText(gen_in[1].concept_tag)) = <<>> =>
        Rejected(gen_out[1])

(***************************************************************************)
(* The generation loop of create_simulation for one domain alone           *)
(* (simulation.py 86-127): a bank holding some cached questions of the     *)
(* domain, a quota and the generator's outcomes are drawn, then the loop   *)
(* is run.                                                                 *)
(***************************************************************************)
MaxCount == 3
MaxCached == 3

LoopBank(n) ==
    [i \in 1..n |-> [domain_id |-> 1, correct_index |-> 0,
                     difficulty_estimate |-> ELO_DEFAULT_SKILL]]

LoopInit ==
    /\ \E n \in 0..MaxCached, count \in 0..MaxCount,
          outcomes \in SeqsFromTo({Null, Some(0)}, 0, MaxCount) :
          loop_in = [questions |-> LoopBank(n), count |-> count, outcomes |-> outcomes]
    /\ loop_out = Null
    /\ SimIdle /\ RunTwoIdle /\ ReviewIdle /\ QuotaIdle /\ ScoreIdle /\ TallyIdle
    /\ EnqueueIdle /\ ExamIdle /\ SelectIdle /\ PassIdle /\ RatingIdle /\ RaceIdle /\ GenIdle

\* cached.data[:count], then the while loop
RunLoop ==
    /\ loop_out = Null
    /\ \E r \in {GenerateLoop(loop_in.questions,
                              Cached(loop_in.questions, 1, loop_in.count),
                              loop_in.count, 0, loop_in.outcomes, 1, ELO_DEFAULT_SKILL)} :
          loop_out' = Some(r)
    /\ UNCHANGED <<loop_in, simVars, runTwoVars, reviewVars, quotaVars, scoreVars, tallyVars,
                   enqueueVars, examVars, selectVars, passVars, ratingVars, raceVars,
                   genVars>>

NextLoop == RunLoop

SpecLoop == LoopInit /\ [][NextLoop]_vars

\* the quota less the cached questions taken
Shortfall == loop_in.count - Len(Cached(loop_in.questions, 1, loop_in.count))

\* C28: the generator is called no more often than the shortfall of the
\* domain, the quota less the cached questions taken, and generation stops
\* as soon as the shortfall is filled; the loop ends even when every
\* generation fails.
C28_CallsWithinShortfall ==
    loop_out # Null =>
        /\ loop_out[1].generated_count <= Shortfall
        /\ Len(loop_out[1].available) <= Max(loop_in.count, 0)

\* what the loop does keep to: no more calls than the quota, and as many
\* calls as questions missing when no call fails
LoopCallsWithinQuota ==
    loop_out # Null =>
        /\ loop_out[1].generated_count <= loop_in.count
        /\ Len(loop_out[1].available) <= loop_in.count
        /\ Len(loop_out[1].available) < loop_in.count
              => loop_out[1].generated_count = loop_in.count

(***************************************************************************)
(* get_due_reviews (GET /exam/review/due) over review queues of two        *)
(* learners.  The clock advances by half days; a row is reviewed at most   *)
(* once.  Rows with the same next_review_at come back in any order, the    *)
(* order by naming no second column.                                       *)
(***************************************************************************)
DefaultLimit == 10
TickHours == 12
MaxDueHours == 36
DuePairs == {<<"u1", 1>>, <<"u1", 2>>, <<"u2", 1>>}
Limits == {1, DefaultLimit}

\* the rows of the learner that are due at the time, by question id
DueOf(rq, user_id, at) ==
    {k[2] : k \in {p \in DOMAIN rq : p[1] = user_id /\ rq[p].next_review_at <= at}}

\* the orders of the question ids in ids by ascending next_review_at
OrdersBy(rq, user_id, ids) ==
    {s \in [1..Cardinality(ids) -> ids] :
        /\ \A i, j \in DOMAIN s : i # j => s[i] # s[j]
        /\ \A i, j \in DOMAIN s :
              i < j => rq[<<user_id, s[i]>>].next_review_at
                          <= rq[<<user_id, s[j]>>].next_review_at}

\* the entry returned for a row
ReviewView(rq, user_id, question_id) ==
    [question_id |-> question_id,
     next_review_at |-> rq[<<user_id, question_id>>].next_review_at,
     mastery_score |-> rq[<<user_id, question_id>>].mastery_score,
     repetitions |-> rq[<<user_id, question_id>>].repetitions]

\* a variant without the filter on next_review_at
GetDueReviewsAll(rq, user_id, limit, at) ==
    {[i \in 1..Min(limit, Len(s)) |-> ReviewView(rq, user_id, s[i])] :
        s \in OrdersBy(rq, user_id, {k[2] : k \in {p \in DOMAIN rq : p[1] = user_id}})}

\* get_due_reviews: the lists the store may return
GetDueReviews(rq, user_id, limit, at) ==
    {[i \in 1..Min(limit, Len(s)) |-> ReviewView(rq, user_id, s[i])] :
        s \in OrdersBy(rq, user_id, DueOf(rq, user_id, at))}

DueInit ==
    /\ review_queue = <<>>
    /\ now = 0
    /\ SimIdle /\ RunTwoIdle /\ QuotaIdle /\ ScoreIdle /\ TallyIdle /\ EnqueueIdle
    /\ ExamIdle /\ SelectIdle /\ PassIdle /\ RatingIdle /\ RaceIdle /\ GenIdle /\ LoopIdle

DueAdd ==
    /\ \E p \in DuePairs, source \in {"auto"} :
          \E r \in {AddToReviewQueue(review_queue, p[1], p[2], source, now)} :
             /\ review_queue' = r.queue
             /\ ret' = [op |-> "enqueue", user_id |-> p[1], question_id |-> p[2],
                        source |-> source, response |-> r.result]
    /\ UNCHANGED <<now, users, questions, simulation_sessions, runTwoVars,
                   quotaVars, scoreVars, tallyVars, enqueueVars, examVars, selectVars,
                   passVars, ratingVars, raceVars, genVars, loopVars>>

DueReview ==
    /\ \E p \in DuePairs, is_correct \in BOOLEAN :
          /\ p \in DOMAIN review_queue =>
                /\ review_queue[p].repetitions = 0
                /\ review_queue[p].ease_factor = EaseMax
          /\ review_queue' = UpdateReviewAfterAnswer(review_queue, p[1], p[2], is_correct, now)
          /\ ret' = [op |-> "review", user_id |-> p[1], question_id |-> p[2],
                     is_correct |-> is_correct]
    /\ UNCHANGED <<now, users, questions, simulation_sessions, runTwoVars,
                   quotaVars, scoreVars, tallyVars, enqueueVars, examVars, selectVars,
                   passVars, ratingVars, raceVars, genVars, loopVars>>

DueGet ==
    /\ \E u \in Users, limit \in Limits :
          \E reviews \in GetDueReviews(review_queue, u, limit, now) :
             ret' = [op |-> "due", user_id |-> u, limit |-> limit, response |-> reviews]
    /\ UNCHANGED <<review_queue, now, users, questions, simulation_sessions, runTwoVars,
                   quotaVars, scoreVars, tallyVars, enqueueVars, examVars, selectVars,
                   passVars, ratingVars, raceVars, genVars, loopVars>>

DueTick ==
    /\ now < MaxDueHours
    /\ now' = now + TickHours
    /\ ret' = NoRequest
    /\ UNCHANGED <<review_queue, users, questions, simulation_sessions, runTwoVars,
                   quotaVars, scoreVars, tallyVars, enqueueVars, examVars, selectVars,
                   passVars, ratingVars, raceVars, genVars, loopVars>>

NextDue == DueAdd \/ DueReview \/ DueGet \/ DueTick

SpecDue == DueInit /\ [][NextDue]_vars

\* the row of the request just served
ServedRow == <<ret'.user_id, ret'.question_id>>

\* C29: get_due_reviews returns only entries of the learner whose
\* next_review_at is not after the time of the call, in ascending
\* next_review_at, at most limit of them; and since enqueue and every review
\* set next_review_at to the time of the write plus interval_hours, which is
\* at least 24, no entry is returned before that.
C29_DueOnlyAndInOrder ==
    [][/\ ret'.op = "due" =>
             /\ Len(ret'.response) <= ret'.limit
             /\ \A i \in DOMAIN ret'.response :
                   LET k == <<ret'.user_id, ret'.response[i].question_id>>
                   IN  /\ k \in DOMAIN review_queue
                       /\ review_queue[k].next_review_at = ret'.response[i].next_review_at
                       /\ review_queue[k].next_review_at <= now
                       /\ review_queue[k].interval_hours >= 24
             /\ \A i, j \in DOMAIN ret'.response :
                   i < j => /\ ret'.response[i].next_review_at
                                <= ret'.response[j].next_review_at
                            /\ ret'.response[i].question_id # ret'.response[j].question_id
       /\ \/ ret'.op = "enqueue" /\ ret'.response
          \/ ret'.op = "review" /\ ServedRow \in DOMAIN review_queue
          => /\ review_queue'[ServedRow].next_review_at
                  = now + review_queue'[ServedRow].interval_hours
             /\ review_queue'[ServedRow].interval_hours >= 24]_vars

\* a learner with two entries due at different times asked for one and got
\* the earlier; an entry of the other learner was due as well
C29_Witness ==
    /\ ret.op = "due" /\ ret.user_id = "u1" /\ ret.limit = 1
    /\ Len(ret.response) = 1
    /\ DueOf(review_queue, "u1", now) = {1, 2}
    /\ DueOf(review_queue, "u2", now) = {1}
    /\ \E other \in {1, 2} :
          review_queue[<<"u1", other>>].next_review_at > ret.response[1].next_review_at

(***************************************************************************)
(* complete_simulation over a bank that has lost a row (simulation.py      *)
(* 240-263): a session in progress is drawn whose question_order names the *)
(* ids of the bank and one id that has no row any more, with any answers   *)
(* at its positions; then the session is completed.                        *)
(***************************************************************************)
MaxFetched == 2

FetchQuestions ==
    [i \in 1..MaxFetched |->
        [domain_id |-> Domains[1].id, correct_index |-> 0,
         difficulty_estimate |-> ELO_DEFAULT_SKILL]]

\* the orders of two ids or more, none twice, over the ids of the bank and
\* the id of the lost row
FetchOrders ==
    {o \in SeqsFromTo(1..(MaxFetched + 1), 2, MaxFetched + 1) :
        \A i, j \in 1..Len(o) : i # j => o[i] # o[j]}

\* the answers maps submissions can have built over the positions of order
FetchAnswers(order) ==
    UNION {[answered -> {[question_id |-> 0, selected_index |-> sel,
                          time_spent_seconds |-> t] :
                            sel \in OptionIndexes, t \in TimesSpent}] :
           answered \in SUBSET (0..(Len(order) - 1))}

FetchSession(user_id, order, answers) ==
    [NewSession(user_id, order) EXCEPT
        !.answers = [i \in DOMAIN answers |->
                        [answers[i] EXCEPT !.question_id = order[i + 1]]],
        !.questions_answered = Cardinality(DOMAIN answers)]

FetchInit ==
    /\ users = [u \in Users |-> [global_skill |-> ELO_DEFAULT_SKILL]]
    /\ questions = FetchQuestions
    /\ \E order \in FetchOrders :
       \E answers \in FetchAnswers(order) :
          simulation_sessions = <<FetchSession("u1", order, answers)>>
    /\ ret = NoRequest
    /\ RunTwoIdle /\ ReviewIdle /\ QuotaIdle /\ ScoreIdle /\ TallyIdle /\ EnqueueIdle /\ ExamIdle /\ SelectIdle /\ PassIdle /\ RatingIdle /\ RaceIdle /\ GenIdle /\ LoopIdle

NextFetch == CompleteSim

SpecFetch == FetchInit /\ [][NextFetch]_vars

\* the positions of the session's question_order whose item has a row
FetchedPositions(sid) ==
    {i \in 1..Len(simulation_sessions[sid].question_order) :
        simulation_sessions[sid].question_order[i] \in 1..Len(questions)}

\* C32: a completion scores the answer recorded at position i against the
\* item question_order[i], for every position whose item the bank holds,
\* also when the bank holds no row for the item of an earlier position;
\* correct_answers counts the positions answered with the correct index
\* of their own item.
C32_AnswersScoredAtOwnPosition ==
    [][(Served("complete") /\ ret'.response.status = 200)
       => LET sid  == ret'.session_id
              sim  == simulation_sessions[sid]
              body == ret'.response.body[1]
          IN  /\ \A i \in FetchedPositions(sid) :
                    \E k \in 1..Len(body.question_results) :
                       /\ body.question_results[k].question_id = sim.question_order[i]
                       /\ body.question_results[k].selected_index
                             = SelectedIndex(sim.answers, i - 1)
                       /\ body.question_results[k].is_correct
                             = (SelectedIndex(sim.answers, i - 1)
                                   = questions[sim.question_order[i]].correct_index)
              /\ body.correct_answers =
                    Cardinality({i \in FetchedPositions(sid) :
                       SelectedIndex(sim.answers, i - 1)
                          = questions[sim.question_order[i]].correct_index})]_vars

\* while every item of question_order has its row, each answer is scored
\* at its own position
C32_ScoredAtOwnPositionWhenComplete ==
    [][(/\ Served("complete")
        /\ ret'.response.status = 200
        /\ FetchedPositions(ret'.session_id)
              = 1..Len(simulation_sessions[ret'.session_id].question_order))
       => LET sid  == ret'.session_id
              sim  == simulation_sessions[sid]
              body == ret'.response.body[1]
          IN  \A i \in FetchedPositions(sid) :
                 /\ body.question_results[i].question_id = sim.question_order[i]
                 /\ body.question_results[i].selected_index
                       = SelectedIndex(sim.answers, i - 1)]_vars

\* a session completed whose first item has no row: the item of the second
\* position, answered correctly, is scored with the answer of the first
C32_Witness ==
    /\ ret.op = "complete"
    /\ ret.response.status = 200
    /\ simulation_sessions[1].question_order[1] \notin 1..Len(questions)
    /\ simulation_sessions[1].question_order[2] \in 1..Len(questions)
    /\ 1 \in DOMAIN simulation_sessions[1].answers
    /\ simulation_sessions[1].answers[1].selected_index = 0
    /\ 0 \notin DOMAIN simulation_sessions[1].answers
    /\ ret.response.body[1].question_results[1].question_id
          = simulation_sessions[1].question_order[2]
    /\ ret.response.body[1].question_results[1].selected_index = -1

(***************************************************************************)
(* Quota allocation for weights that sum to 1.0 (simulation.py 46-57):     *)
(* the domain list of a certification is drawn with weights, in            *)
(* thousandths, that add up to 1000; then the counts are computed.         *)
(***************************************************************************)
MaxShareDomains == 4
\* 0.343 * 60 = 20.58 and 0.310 * 60 = 18.6 round up
ShareWeights == {0, 4, 100, 175, 200, 250, 275, 300, 310, 343, 400, 500, 1000}

ShareLists ==
    {[i \in 1..Len(ws) |-> [id |-> i, weight |-> ws[i]]] :
        ws \in {w \in SeqsFromTo(ShareWeights, 1, MaxShareDomains) : SumSeq(w) = 1000}}

ShareInit ==
    /\ quota_in \in ShareLists
    /\ quota_out = Null
    /\ SimIdle /\ RunTwoIdle /\ ReviewIdle /\ ScoreIdle /\ TallyIdle /\ EnqueueIdle /\ ExamIdle /\ SelectIdle /\ PassIdle /\ RatingIdle /\ RaceIdle /\ GenIdle /\ LoopIdle

NextShare == AllocateQuotas

SpecShare == ShareInit /\ [][NextShare]_vars

\* C34: for weights that are non-negative and sum to 1.0 every count,
\* that of the last domain included, is non-negative.
C34_QuotasNonNegative ==
    quota_out # Null
    => \A i \in 1..Len(quota_out[1]) : quota_out[1][i] >= 0

\* the counts of all domains but the last are non-negative, and all the
\* counts add up to 60
C34_RoundedQuotasNonNegative ==
    quota_out # Null
    => /\ \A i \in 1..(Len(quota_out[1]) - 1) : quota_out[1][i] >= 0
       /\ SumSeq(quota_out[1]) = total_questions

\* three counts rounded up to 61 in all leave -1 for the last domain
C34_Witness ==
    /\ quota_out = Some(<<21, 21, 19, -1>>)
    /\ [i \in 1..Len(quota_in) |-> quota_in[i].weight] = <<343, 343, 310, 4>>

(***************************************************************************)
(* create_simulation over a bank of full size (simulation.py 63-150): the  *)
(* bank is drawn with, for every domain, a cache that is short of the      *)
(* domain's count, meets it or exceeds it; then one simulation is started, *)
(* the generator answering each domain's calls as drawn.  The shuffles     *)
(* leave the order as it is or reverse it.                                 *)
(***************************************************************************)
MaxShort == 1

\* the sizes of a domain's cache around its count
CacheSizes(count) == (count - MaxShort)..(count + 1)

\* per domain, the generator's answers in call order; every later call fails
FullOutcomes == {<<>>, <<Some(0)>>, <<Null, Some(0)>>}

RECURSIVE FullBankFrom(_, _)
FullBankFrom(sizes, i) ==
    IF i > Len(sizes) THEN <<>>
    ELSE [k \in 1..sizes[i] |->
             [domain_id |-> Domains[i].id, correct_index |-> MaxOptionIndex,
              difficulty_estimate |-> ELO_DEFAULT_SKILL]] \o FullBankFrom(sizes, i + 1)

\* per domain from the i-th on, a size of its cache
RECURSIVE CacheSizeLists(_)
CacheSizeLists(i) ==
    IF i > Len(Domains) THEN {<<>>}
    ELSE {<<c>> \o rest : c \in CacheSizes(SimulationCounts[i]),
                          rest \in CacheSizeLists(i + 1)}

FullShuffles(n) == {[i \in 1..n |-> i], [i \in 1..n |-> n + 1 - i]}

FullInit ==
    /\ users = [u \in Users |-> [global_skill |-> ELO_DEFAULT_SKILL]]
    /\ \E sizes \in CacheSizeLists(1) : questions = FullBankFrom(sizes, 1)
    /\ simulation_sessions = <<>>
    /\ ret = NoRequest
    /\ RunTwoIdle /\ ReviewIdle /\ QuotaIdle /\ ScoreIdle /\ TallyIdle /\ EnqueueIdle /\ ExamIdle /\ SelectIdle /\ PassIdle /\ RatingIdle /\ RaceIdle /\ GenIdle /\ LoopIdle

\* POST /simulate/start over the full bank
StartFull ==
    /\ Len(simulation_sessions) < MaxSessions
    /\ \E u \in Starters :
       \E gen \in [1..Len(Domains) -> FullOutcomes] :
       \E perm \in FullShuffles(SessionSize(questions, gen)) :
          \E r \in {CreateSimulation(users, questions, simulation_sessions, u, gen, perm)} :
              /\ questions' = r.questions
              /\ simulation_sessions' = r.sessions
              /\ ret' = [op |-> "start", response |-> StartResponse(r.result)]
    /\ UNCHANGED <<users, runTwoVars, reviewVars, quotaVars, scoreVars, tallyVars, enqueueVars,
                   examVars, selectVars, passVars, ratingVars, raceVars, genVars, loopVars>>

NextFull == StartFull

SpecFull == FullInit /\ [][NextFull]_vars

\* the number of rows of domain d in a bank
RowsOfDomain(qs, d) == Cardinality({i \in 1..Len(qs) : qs[i].domain_id = d})

C35_ShortWitness ==
    /\ ret.op = "start"
    /\ ret.response.status = 200
    /\ simulation_sessions[1].total_questions = total_questions - 1
    /\ RowsOfDomain(questions, Domains[Len(Domains)].id) = SimulationCounts[Len(Domains)] - 1
    /\ \A i \in 1..(Len(Domains) - 1) :
          RowsOfDomain(questions, Domains[i].id) >= SimulationCounts[i]

(***************************************************************************)
(* The simulation routes called by two learners (simulation_routes.py      *)
(* 62-93): a session of u1 in progress is drawn; then either learner       *)
(* submits answers to it or completes it.  The request records the         *)
(* learner the route authenticated.                                        *)
(***************************************************************************)
OwnerInit ==
    /\ users = [u \in Users |-> [global_skill |-> ELO_DEFAULT_SKILL]]
    /\ questions = StoredQuestions
    /\ \E answers \in StoredAnswers :
          simulation_sessions = <<InProgress("u1", answers)>>
    /\ ret = NoRequest
    /\ RunTwoIdle /\ ReviewIdle /\ QuotaIdle /\ ScoreIdle /\ TallyIdle /\ EnqueueIdle /\ ExamIdle /\ SelectIdle /\ PassIdle /\ RatingIdle /\ RaceIdle /\ GenIdle /\ LoopIdle

\* POST /simulate/answer by learner u: user_id is not passed on
SubmitAs ==
    /\ \E u \in Users, sid \in StoredIdInputs, i \in PositionInputs,
          sel \in OptionIndexes, t \in TimesSpent :
          \E qid \in {QuestionIdAt(simulation_sessions, sid, i)} :
          \E r \in {SubmitSimAnswer(simulation_sessions, sid, qid, i, sel, t)} :
              /\ simulation_sessions' = r.sessions
              /\ ret' = [op |-> "answer", user_id |-> u, session_id |-> sid,
                         question_id |-> qid, question_index |-> i,
                         selected_index |-> sel, time_spent_seconds |-> t,
                         response |-> SubmitResponse(r.result)]
    /\ UNCHANGED <<users, questions, runTwoVars, reviewVars, quotaVars, scoreVars, tallyVars,
                   enqueueVars, examVars, selectVars, passVars, ratingVars, raceVars, genVars,
                   loopVars>>

\* POST /simulate/complete/{session_id} by learner u
CompleteAs ==
    /\ \E u \in Users, sid \in StoredIdInputs :
          \E r \in {CompleteSimulation(questions, simulation_sessions, sid, u)} :
              /\ simulation_sessions' = r.sessions
              /\ ret' = [op |-> "complete", user_id |-> u, session_id |-> sid,
                         response |-> CompleteResponse(r.result)]
    /\ UNCHANGED <<users, questions, runTwoVars, reviewVars, quotaVars, scoreVars, tallyVars,
                   enqueueVars, examVars, selectVars, passVars, ratingVars, raceVars, genVars,
                   loopVars>>

NextOwner == SubmitAs \/ CompleteAs

SpecOwner == OwnerInit /\ [][NextOwner]_vars

\* the request of the step names a session of another learner
ByAnotherLearner ==
    /\ ret'.session_id \in SessionIds
    /\ simulation_sessions[ret'.session_id].user_id # ret'.user_id

\* C39: an answer submitted to a session by a learner who does not own it
\* is refused and leaves the session as it was.
C39_OnlyOwnerChangesAnswers ==
    [][(Served("answer") /\ ByAnotherLearner)
       => /\ ret'.response.status # 200
          /\ simulation_sessions' = simulation_sessions]_vars

\* a completion asked for by a learner who does not own the session is
\* refused and leaves the session as it was
C39_OnlyOwnerCompletes ==
    [][(Served("complete") /\ ByAnotherLearner)
       => /\ ret'.response.status = 404
          /\ simulation_sessions' = simulation_sessions]_vars

\* u2 has answered position 0 of the session of u1
C39_Witness ==
    /\ ret.op = "answer"
    /\ ret.user_id = "u2"
    /\ ret.response.status = 200
    /\ simulation_sessions[1].user_id = "u1"
    /\ ret.question_index \in DOMAIN simulation_sessions[1].answers
    /\ simulation_sessions[1].answers[ret.question_index].selected_index
          = ret.selected_index

(***************************************************************************)
(* The simulation routes over a store the adaptive exam has written to:    *)
(* learner u1 has answered the one question of the bank through            *)
(* POST /exam/submit-answer, correctly or not, while the daily-activity    *)
(* write failed; then simulations are started, answered and completed.     *)
(***************************************************************************)
\* the store after the answer selected_index to question 1
AnsweredStore(selected_index) ==
    LET q          == ExamQuestions[1]
        is_correct == selected_index = q.correct_index
        rated      == UpdateRatings(ELO_DEFAULT_SKILL, q.difficulty_estimate, is_correct)
    IN  [users |-> [u \in Users |->
                       [global_skill |-> IF u = "u1" THEN rated.user_skill
                                         ELSE ELO_DEFAULT_SKILL]],
         questions |-> <<[q EXCEPT !.difficulty_estimate = rated.question_difficulty]>>,
         question_stats |-> <<[times_answered |-> 1,
                               times_correct |-> IF is_correct THEN 1 ELSE 0]>>,
         user_domain_skills |->
            [k \in {<<"u1", q.domain_id>>} |->
                DomainSkillAfter(<<>>, "u1", q.domain_id, q.difficulty_estimate, is_correct)],
         user_responses |->
            <<[user_id |-> "u1", question_id |-> 1, session_id |-> Null,
               selected_index |-> selected_index, is_correct |-> is_correct,
               time_spent_seconds |-> Some(30),
               skill_before |-> ELO_DEFAULT_SKILL, skill_after |-> rated.user_skill]>>,
         review_queue |-> AutoQueue(<<>>, "u1", 1, is_correct, 0, {"daily"}).queue]

NeutralInit ==
    /\ \E selected_index \in OptionIndexes :
       \E store \in {AnsweredStore(selected_index)} :
          /\ users = store.users
          /\ questions = store.questions
          /\ question_stats = store.question_stats
          /\ user_domain_skills = store.user_domain_skills
          /\ user_responses = store.user_responses
          /\ review_queue = store.review_queue
    /\ now = 0
    /\ simulation_sessions = <<>>
    /\ ret = NoRequest
    /\ user_streaks = [u \in Users |-> [current_streak |-> 0, longest_streak |-> 0,
                                        last_active_date |-> Null]]
    /\ daily_activity = <<>>
    /\ exam_sessions = <<>>
    /\ RunTwoIdle /\ QuotaIdle /\ ScoreIdle /\ TallyIdle /\ EnqueueIdle /\ SelectIdle /\ PassIdle /\ RatingIdle /\ RaceIdle /\ GenIdle /\ LoopIdle

NextNeutral == StartSimulation \/ SubmitAnswer \/ CompleteSim

SpecNeutral == NeutralInit /\ [][NextNeutral]_vars

\* C38: no request of the simulation routes changes a learner's
\* global_skill, a row of user_domain_skills, the difficulty_estimate or
\* the answer counters of a question the bank already holds, the
\* user_responses table or the review queue.
C38_SimulationsRatingNeutral ==
    [][/\ users' = users
       /\ user_domain_skills' = user_domain_skills
       /\ question_stats' = question_stats
       /\ user_responses' = user_responses
       /\ review_queue' = review_queue
       /\ Len(questions') >= Len(questions)
       /\ \A i \in 1..Len(questions) : questions'[i] = questions[i]]_vars

\* a simulation over the question the learner missed and a generated one,
\* answered and completed, the learner's ratings, response and review row
\* still in the store
C38_Witness ==
    /\ ret.op = "complete"
    /\ ret.response.status = 200
    /\ Len(questions) = MaxItems
    /\ simulation_sessions[1].is_complete
    /\ simulation_sessions[1].answers # <<>>
    /\ \E i \in 1..Len(simulation_sessions[1].question_order) :
          simulation_sessions[1].question_order[i] = 1
    /\ users["u1"].global_skill < ELO_DEFAULT_SKILL
    /\ questions[1].difficulty_estimate > ELO_DEFAULT_SKILL
    /\ <<"u1", 1>> \in DOMAIN review_queue
    /\ Len(user_responses) = 1
    /\ question_stats[1].times_answered = 1

(***************************************************************************)
(* Two runs of the simulation routes side by side.  Both receive the same  *)
(* requests from the same learners and the generator succeeds and fails at *)
(* the same calls; the second run differs in the correct indexes of the    *)
(* questions generated, in their difficulty (the learner's skill at the    *)
(* time) and in the selected indexes submitted.                            *)
(***************************************************************************)
MaxRunTwoItems == 1
OtherSkill == 1200
OtherIndexes == {0, MaxOptionIndex}
users2 == [u \in Users |-> [global_skill |-> OtherSkill]]

\* the outcomes of the second run's generator: valid where gen is valid
SameShape(gen) ==
    {gen2 \in GenChoices(Len(gen), MaxRunTwoItems, OtherIndexes) :
        \A d \in 1..Len(gen) : Len(gen2[d]) = Len(gen[d])}

RunTwoInit ==
    /\ SimInit
    /\ questions2 = <<>> /\ simulation_sessions2 = <<>> /\ ret2 = NoRequest
    /\ ReviewIdle /\ QuotaIdle /\ ScoreIdle /\ TallyIdle /\ EnqueueIdle /\ ExamIdle /\ SelectIdle /\ PassIdle /\ RatingIdle /\ RaceIdle /\ GenIdle /\ LoopIdle

StartBoth ==
    /\ Len(simulation_sessions) < MaxSessions
    /\ \E u \in Starters :
       \E gen \in GenChoices(Len(Domains), MaxRunTwoItems - Len(questions), GenIndexes) :
       \E gen2 \in SameShape(gen) :
       \E perm \in Permutations(1..SessionSize(questions, gen)) :
          \E r \in {CreateSimulation(users, questions, simulation_sessions, u, gen, perm)} :
          \E r2 \in {CreateSimulation(users2, questions2, simulation_sessions2, u, gen2, perm)} :
              /\ questions' = r.questions
              /\ simulation_sessions' = r.sessions
              /\ ret' = [op |-> "start", response |-> StartResponse(r.result)]
              /\ questions2' = r2.questions
              /\ simulation_sessions2' = r2.sessions
              /\ ret2' = [op |-> "start", response |-> StartResponse(r2.result)]
    /\ UNCHANGED <<users, reviewVars, quotaVars, scoreVars, tallyVars, enqueueVars, examVars,
                   selectVars, passVars, ratingVars, raceVars, genVars, loopVars>>

SubmitBoth ==
    /\ \E sid \in SessionIdInputs, i \in IndexInputs, t \in TimesSpent :
       \E sel \in OptionIndexes, sel2 \in OptionIndexes :
          \E qid \in {QuestionIdAt(simulation_sessions, sid, i)} :
          \E qid2 \in {QuestionIdAt(simulation_sessions2, sid, i)} :
          \E r \in {SubmitSimAnswer(simulation_sessions, sid, qid, i, sel, t)} :
          \E r2 \in {SubmitSimAnswer(simulation_sessions2, sid, qid2, i, sel2, t)} :
              /\ simulation_sessions' = r.sessions
              /\ ret' = [op |-> "answer", session_id |-> sid, question_id |-> qid,
                         question_index |-> i, selected_index |-> sel,
                         time_spent_seconds |-> t, response |-> SubmitResponse(r.result)]
              /\ simulation_sessions2' = r2.sessions
              /\ ret2' = [op |-> "answer", session_id |-> sid, question_id |-> qid2,
                          question_index |-> i, selected_index |-> sel2,
                          time_spent_seconds |-> t, response |-> SubmitResponse(r2.result)]
    /\ UNCHANGED <<users, questions, questions2, reviewVars, quotaVars, scoreVars, tallyVars,
                   enqueueVars, examVars, selectVars, passVars, ratingVars, raceVars, genVars,
                   loopVars>>

CompleteBoth ==
    /\ \E sid \in SessionIdInputs, u \in Users :
          \E r \in {CompleteSimulation(questions, simulation_sessions, sid, u)} :
          \E r2 \in {CompleteSimulation(questions2, simulation_sessions2, sid, u)} :
              /\ simulation_sessions' = r.sessions
              /\ ret' = [op |-> "complete", session_id |-> sid,
                         response |-> CompleteResponse(r.result)]
              /\ simulation_sessions2' = r2.sessions
              /\ ret2' = [op |-> "complete", session_id |-> sid,
                          response |-> CompleteResponse(r2.result)]
    /\ UNCHANGED <<users, questions, questions2, reviewVars, quotaVars, scoreVars, tallyVars,
                   enqueueVars, examVars, selectVars, passVars, ratingVars, raceVars, genVars,
                   loopVars>>

ResultsBoth ==
    /\ \E sid \in SessionIdInputs, u \in Users :
          /\ ret' = [op |-> "results", session_id |-> sid,
                     response |-> GetResults(simulation_sessions, sid, u)]
          /\ ret2' = [op |-> "results", session_id |-> sid,
                      response |-> GetResults(simulation_sessions2, sid, u)]
    /\ UNCHANGED <<users, questions, simulation_sessions, questions2, simulation_sessions2,
                   reviewVars, quotaVars, scoreVars, tallyVars, enqueueVars, examVars,
                   selectVars, passVars, ratingVars, raceVars, genVars, loopVars>>

NextRunTwo == StartBoth \/ SubmitBoth \/ CompleteBoth \/ ResultsBoth

SpecRunTwo == RunTwoInit /\ [][NextRunTwo]_vars

\* the session a results request named is stored and not complete
Incomplete(ss, r) ==
    /\ r.op = "results"
    /\ r.session_id \in 1..Len(ss)
    /\ ~ss[r.session_id].is_complete

\* C9: the responses to start and to answer are the same in the two runs,
\* whatever the correct indexes, the difficulties and the selected indexes;
\* and a results request for a session that is not complete returns no row.
C9_FeedbackWithheld ==
    /\ ret.op \in {"start", "answer"} => ret.response = ret2.response
    /\ Incomplete(simulation_sessions, ret) => ret.response.body = Null
    /\ Incomplete(simulation_sessions2, ret2) => ret2.response.body = Null

\* the runs hold questions that differ in correct index and difficulty and
\* answers that differ in selected index, and the owner was just refused
\* the results of the session, which is not complete
C9_Witness ==
    /\ Incomplete(simulation_sessions, ret)
    /\ ret.response.status = 400
    /\ questions # <<>>
    /\ questions[1].correct_index # questions2[1].correct_index
    /\ questions[1].difficulty_estimate # questions2[1].difficulty_estimate
    /\ 0 \in DOMAIN simulation_sessions[1].answers
    /\ simulation_sessions[1].answers[0].selected_index
         # simulation_sessions2[1].answers[0].selected_index

====
